---- MODULE Spec2Model ----
(***************************************************************************)
(* Model of the item-resolution and match-quality engine of spotify-tools  *)
(* (src/src/spotify_tools/playlist.py).                                    *)
(*                                                                         *)
(* Strings are sequences of one-character strings.  Floats are modelled    *)
(* as exact rationals [n |-> numerator, d |-> denominator] in lowest       *)
(* terms; on the inputs enumerated here the float comparisons of the code  *)
(* (> 0.2, > 0.4, >= 0.6, ...) agree with the exact ones.                  *)
(***************************************************************************)
EXTENDS Integers, Sequences, FiniteSets, TLC

\* ------------------------------------------------------------------ bounds

\* Longest item list handed to resolve_items.
MaxItems == 2

\* Longest query and candidate name handed to calculate_match_quality.
MaxLen == 3

\* Longest text after the prefixes of an item handed to parse_item.
MaxBody == 2

\* Longest track list handed to create_playlist_from_tracks on its own.
MaxTracks == 201

\* ------------------------------------------------------------ rationals

RECURSIVE Gcd(_, _)
Gcd(a, b) == IF b = 0 THEN a ELSE Gcd(b, a % b)

Rat(n, d) == [n |-> n \div Gcd(n, d), d |-> d \div Gcd(n, d)]

Zero == [n |-> 0, d |-> 1]
One == [n |-> 1, d |-> 1]

RatAdd(x, y) == Rat(x.n * y.d + y.n * x.d, x.d * y.d)
RatMul(x, y) == Rat(x.n * y.n, x.d * y.d)
RatLt(x, y) == x.n * y.d < y.n * x.d
RatLe(x, y) == x.n * y.d <= y.n * x.d
RatGt(x, y) == RatLt(y, x)
RatGe(x, y) == RatLe(y, x)

\* "{x:.2f}": the value in hundredths, rounded to nearest (ties to even).
RoundHalfEven(q, r, d) ==
    IF 2 * r > d THEN q + 1
    ELSE IF 2 * r < d THEN q
    ELSE IF q % 2 = 0 THEN q ELSE q + 1

Fmt2(x) == RoundHalfEven((x.n * 100) \div x.d, (x.n * 100) % x.d, x.d)

\* -------------------------------------------------------------- strings

Whitespace == {" ", "\t", "\n"}

\* str.lower() on one character.
LowerChar(c) ==
    CASE c = "A" -> "a" [] c = "B" -> "b" [] c = "C" -> "c" [] OTHER -> c

\* \w of the regular expression in normalize_string.
IsWordChar(c) ==
    c \in {"a", "b", "c", "d", "e", "f", "g", "h", "i", "j", "k", "l", "m",
           "n", "o", "p", "q", "r", "s", "t", "u", "v", "w", "x", "y", "z",
           "A", "B", "C",
           "0", "1", "2", "3", "4", "5", "6", "7", "8", "9", "_"}

RECURSIVE LStrip(_)
LStrip(s) == IF s # <<>> /\ Head(s) \in Whitespace THEN LStrip(Tail(s)) ELSE s

RECURSIVE RStrip(_)
RStrip(s) ==
    IF s # <<>> /\ s[Len(s)] \in Whitespace
    THEN RStrip(SubSeq(s, 1, Len(s) - 1)) ELSE s

\* str.strip()
Strip(s) == RStrip(LStrip(s))

\* str.startswith(prefix)
StartsWith(s, prefix) ==
    Len(s) >= Len(prefix) /\ SubSeq(s, 1, Len(prefix)) = prefix

\* s[k:]
DropFirst(s, k) == IF k >= Len(s) THEN <<>> ELSE SubSeq(s, k + 1, Len(s))

\* str.split(): the maximal runs of non-whitespace characters, in order.
RECURSIVE SplitFrom(_, _)
SplitFrom(s, word) ==
    IF s = <<>> THEN (IF word = <<>> THEN <<>> ELSE <<word>>)
    ELSE IF Head(s) \in Whitespace
         THEN (IF word = <<>> THEN <<>> ELSE <<word>>) \o SplitFrom(Tail(s), <<>>)
         ELSE SplitFrom(Tail(s), Append(word, Head(s)))

Split(s) == SplitFrom(s, <<>>)

\* sep.join(parts)
RECURSIVE Join(_, _)
Join(sep, parts) ==
    IF parts = <<>> THEN <<>>
    ELSE IF Len(parts) = 1 THEN parts[1]
    ELSE parts[1] \o sep \o Join(sep, Tail(parts))

\* s.split(":")[-1]: the text after the last colon.
RECURSIVE LastSegment(_)
LastSegment(s) ==
    IF \E k \in 1..Len(s) : s[k] = ":"
    THEN LastSegment(DropFirst(s, CHOOSE k \in 1..Len(s) : s[k] = ":"))
    ELSE s

\* ---------------------------------------------------------- similarity

\* re.sub(r"[^\w\s]", "", s.lower()): lower-case every character and drop
\* the ones that are neither word characters nor whitespace.
KeepChar(c) == IF IsWordChar(c) \/ c \in Whitespace THEN <<c>> ELSE <<>>

RECURSIVE LowerAndDrop(_)
LowerAndDrop(s) ==
    IF s = <<>> THEN <<>>
    ELSE KeepChar(LowerChar(Head(s))) \o LowerAndDrop(Tail(s))

normalize_string(s) == Strip(LowerAndDrop(s))

\* Length of the common run of a[i..ahi-1] and b[j..bhi-1] starting at i, j.
RECURSIVE RunLen(_, _, _, _, _, _)
RunLen(a, i, ahi, b, j, bhi) ==
    IF i < ahi /\ j < bhi /\ a[i] = b[j]
    THEN 1 + RunLen(a, i + 1, ahi, b, j + 1, bhi) ELSE 0

\* difflib.SequenceMatcher.find_longest_match without junk: the longest
\* common block of a[alo..ahi-1] and b[blo..bhi-1]; of the longest ones the
\* one starting earliest in a, and of those the one starting earliest in b.
Better(x, y) ==
    \/ x[3] > y[3]
    \/ x[3] = y[3] /\ x[1] < y[1]
    \/ x[3] = y[3] /\ x[1] = y[1] /\ x[2] <= y[2]

BestRun(runs, alo, blo) ==
    IF runs = {} THEN <<alo, blo, 0>>
    ELSE CHOOSE x \in runs : \A y \in runs : Better(x, y)

FindLongestMatch(a, alo, ahi, b, blo, bhi) ==
    BestRun({<<i, j, RunLen(a, i, ahi, b, j, bhi)>> :
                i \in alo..(ahi - 1), j \in blo..(bhi - 1)}, alo, blo)

\* Sum of the sizes of SequenceMatcher.get_matching_blocks().
RECURSIVE MatchingChars(_, _, _, _, _, _)
\* The block (i, j, k) found in a[alo..ahi-1], b[blo..bhi-1], and the
\* blocks to its left and to its right.
BlockAndRest(a, alo, ahi, b, blo, bhi, i, j, k) ==
    IF k = 0 THEN 0
    ELSE k
         + (IF alo < i /\ blo < j
            THEN MatchingChars(a, alo, i, b, blo, j) ELSE 0)
         + (IF i + k < ahi /\ j + k < bhi
            THEN MatchingChars(a, i + k, ahi, b, j + k, bhi) ELSE 0)

FromMatch(a, alo, ahi, b, blo, bhi, m) ==
    BlockAndRest(a, alo, ahi, b, blo, bhi, m[1], m[2], m[3])

MatchingChars(a, alo, ahi, b, blo, bhi) ==
    FromMatch(a, alo, ahi, b, blo, bhi,
              FindLongestMatch(a, alo, ahi, b, blo, bhi))

\* SequenceMatcher(None, a, b).ratio()
Ratio(a, b) ==
    IF Len(a) + Len(b) = 0 THEN One
    ELSE Rat(2 * MatchingChars(a, 1, Len(a) + 1, b, 1, Len(b) + 1),
             Len(a) + Len(b))

calculate_string_similarity(s1, s2) ==
    IF normalize_string(s1) = <<>> \/ normalize_string(s2) = <<>> THEN Zero
    ELSE Ratio(normalize_string(s1), normalize_string(s2))

\* get_close_matches(word, possibilities, n=1, cutoff=0.6) is non-empty:
\* some possibility x has SequenceMatcher(a=x, b=word).ratio() >= cutoff.
HasCloseMatch(word, possibilities) ==
    \E k \in 1..Len(possibilities) :
        RatGe(Ratio(possibilities[k], word), Rat(6, 10))

MatchedFraction(query_words, result_words) ==
    IF query_words = <<>> \/ result_words = <<>> THEN Zero
    ELSE Rat(Cardinality({k \in 1..Len(query_words) :
                             HasCloseMatch(query_words[k], result_words)}),
             Len(query_words))

calculate_fuzzy_word_similarity(query, result_text) ==
    MatchedFraction(Split(normalize_string(query)),
                    Split(normalize_string(result_text)))

\* Reasons are records: a fixed text, the message of the error it embeds
\* ("" when none) and the two component scores as formatted by "{:.2f}",
\* in hundredths (-1 when the reason embeds no scores).
PlainReason(text) == [text |-> text, msg |-> "", str |-> -1, word |-> -1]
ScoredReason(band, string_sim, fuzzy_word_sim) ==
    [text |-> band, msg |-> "", str |-> Fmt2(string_sim),
     word |-> Fmt2(fuzzy_word_sim)]

\* Mutant of OverallQuality: both components weighted 0.6.
OverallQuality_equal_weights(string_sim, fuzzy_word_sim) ==
    RatAdd(RatMul(Rat(6, 10), string_sim), RatMul(Rat(6, 10), fuzzy_word_sim))

\* overall_quality = (0.6 * string_sim) + (0.4 * fuzzy_word_sim)
OverallQuality(string_sim, fuzzy_word_sim) ==
    RatAdd(RatMul(Rat(6, 10), string_sim), RatMul(Rat(4, 10), fuzzy_word_sim))

\* Mutant of Band: a quality on a threshold falls into the lower category.
Band_strict(overall_quality) ==
    IF RatGt(overall_quality, Rat(8, 10)) THEN "Excellent match"
    ELSE IF RatGt(overall_quality, Rat(6, 10)) THEN "Good match"
    ELSE IF RatGt(overall_quality, Rat(3, 10)) THEN "Fair match"
    ELSE IF RatGt(overall_quality, Rat(1, 10)) THEN "Weak match"
    ELSE "Poor match"

\* The quality category of the reason.
Band(overall_quality) ==
    IF RatGe(overall_quality, Rat(8, 10)) THEN "Excellent match"
    ELSE IF RatGe(overall_quality, Rat(6, 10)) THEN "Good match"
    ELSE IF RatGe(overall_quality, Rat(3, 10)) THEN "Fair match"
    ELSE IF RatGe(overall_quality, Rat(1, 10)) THEN "Weak match"
    ELSE "Poor match"

QualityAndReason(overall_quality, string_sim, fuzzy_word_sim) ==
    <<overall_quality,
      ScoredReason(Band(overall_quality), string_sim, fuzzy_word_sim)>>

Combined(string_sim, fuzzy_word_sim) ==
    QualityAndReason(OverallQuality(string_sim, fuzzy_word_sim), string_sim,
                     fuzzy_word_sim)

ScoreAgainst(query, result_full) ==
    Combined(calculate_string_similarity(query, result_full),
             calculate_fuzzy_word_similarity(query, result_full))

\* Mutant of calculate_match_quality: an empty query is scored like any
\* other.
calculate_match_quality_scores_empty(query, result_name, result_artists) ==
    IF result_name = <<>> THEN <<Zero, PlainReason("No result found")>>
    ELSE ScoreAgainst(query, Strip(result_name \o <<" ">> \o result_artists))

\* Mutant of calculate_match_quality: the query is looked at before the
\* candidate name.
calculate_match_quality_query_first(query, result_name, result_artists) ==
    IF query = <<>> THEN <<Zero, PlainReason("Empty query")>>
    ELSE IF result_name = <<>> THEN <<Zero, PlainReason("No result found")>>
    ELSE ScoreAgainst(query, Strip(result_name \o <<" ">> \o result_artists))

calculate_match_quality(query, result_name, result_artists) ==
    IF result_name = <<>> THEN <<Zero, PlainReason("No result found")>>
    ELSE IF query = <<>> THEN <<Zero, PlainReason("Empty query")>>
    ELSE ScoreAgainst(query, Strip(result_name \o <<" ">> \o result_artists))

\* ---------------------------------------------------------- classifier

\* Item kinds and prefixes of parse_item.
PfxSpotify == <<"s", "p", "o", "t", "i", "f", "y", ":">>
PfxAlbum == <<"a", "l", "b", "u", "m", ":">>
PfxSingle == <<"s", "i", "n", "g", "l", "e", ":">>
PfxTrack == <<"t", "r", "a", "c", "k", ":">>

\* Mutant of parse_item: the text after a prefix is kept as it is.
parse_item_keeps_blanks(item_string) ==
    LET s == Strip(item_string)
    IN  IF StartsWith(s, PfxSpotify) THEN <<"uri", s>>
        ELSE IF StartsWith(s, PfxAlbum) THEN <<"album", DropFirst(s, 6)>>
        ELSE IF StartsWith(s, PfxSingle) THEN <<"album", DropFirst(s, 7)>>
        ELSE IF StartsWith(s, PfxTrack) THEN <<"track", DropFirst(s, 6)>>
        ELSE <<"auto", s>>

\* Mutant of parse_item: a prefix of the remainder is removed as well.
parse_item_strips_again(item_string) ==
    LET s == Strip(item_string)
        again(r) ==
            IF StartsWith(r, PfxAlbum) THEN Strip(DropFirst(r, 6))
            ELSE IF StartsWith(r, PfxSingle) THEN Strip(DropFirst(r, 7))
            ELSE IF StartsWith(r, PfxTrack) THEN Strip(DropFirst(r, 6))
            ELSE r
    IN  IF StartsWith(s, PfxSpotify) THEN <<"uri", s>>
        ELSE IF StartsWith(s, PfxAlbum)
        THEN <<"album", again(Strip(DropFirst(s, 6)))>>
        ELSE IF StartsWith(s, PfxSingle)
        THEN <<"album", again(Strip(DropFirst(s, 7)))>>
        ELSE IF StartsWith(s, PfxTrack)
        THEN <<"track", again(Strip(DropFirst(s, 6)))>>
        ELSE <<"auto", s>>

parse_item(item_string) ==
    LET s == Strip(item_string)
    IN  IF StartsWith(s, PfxSpotify) THEN <<"uri", s>>
        ELSE IF StartsWith(s, PfxAlbum) THEN <<"album", Strip(DropFirst(s, 6))>>
        ELSE IF StartsWith(s, PfxSingle) THEN <<"album", Strip(DropFirst(s, 7))>>
        ELSE IF StartsWith(s, PfxTrack) THEN <<"track", Strip(DropFirst(s, 6))>>
        ELSE <<"auto", s>>

\* ------------------------------------------------------------- records

\* Python's None.
None == [none |-> TRUE]

ResolvedTrack(uri, name, artists, source_query) ==
    [uri |-> uri, name |-> name, artists |-> artists,
     source_query |-> source_query]

SearchResult(query, search_type, found_item, quality, reason, tracks) ==
    [query |-> query, search_type |-> search_type, found_item |-> found_item,
     match_quality |-> quality, quality_reason |-> reason,
     resolved_tracks |-> tracks]

\* An exception leaving a function: its message.
IsExc(v) == "exc" \in DOMAIN v

\* str(KeyError(key)): the key in quotes.
KeyErrorMsg(key) ==
    CASE key = "artists" -> "'artists'"
      [] key = "name" -> "'name'"
      [] key = "uri" -> "'uri'"
      [] key = "id" -> "'id'"
      [] key = "items" -> "'items'"
      [] OTHER -> "'tracks'"

\* A payload is a record of the provider with the set of keys it lacks in
\* field "missing"; payload[key] raises KeyError for those. The first key
\* of `order` (the order the code reads them in) that is missing, or "".
FirstMissing(payload, order) ==
    IF \E k \in 1..Len(order) : order[k] \in payload.missing
    THEN order[CHOOSE k \in 1..Len(order) :
                  /\ order[k] \in payload.missing
                  /\ \A h \in 1..(k - 1) : order[h] \notin payload.missing]
    ELSE ""

format_artists(track) == Join(<<",", " ">>, track.artists)

\* Inclusion threshold of search_track and search_album: tracks are kept
\* when quality > 0.2.
InclusionThreshold == Rat(2, 10)

\* Early-accept threshold of search_auto: quality > 0.4.
AutoThreshold == Rat(4, 10)

\* --------------------------------------------------------- track search

\* Mutant of SearchError: the reason does not embed the error message.
SearchError_generic(query, search_type, msg) ==
    SearchResult(query, search_type, None, Zero,
                 [text |-> "Search error: ", msg |-> "", str |-> -1,
                  word |-> -1], <<>>)

SearchError(query, search_type, msg) ==
    SearchResult(query, search_type, None, Zero,
                 [text |-> "Search error: ", msg |-> msg, str |-> -1,
                  word |-> -1], <<>>)

NoResults(query, search_type) ==
    SearchResult(query, search_type, None, Zero,
                 PlainReason("No results found"), <<>>)

\* Mutant of TrackScored: the track is kept at quality >= 0.2.
TrackScored_inclusive(query, track, artists_str, qr) ==
    SearchResult(query, "track", track, qr[1], qr[2],
                 IF RatGe(qr[1], InclusionThreshold)
                 THEN <<ResolvedTrack(track.uri, track.name, artists_str,
                                      PfxTrack \o query)>>
                 ELSE <<>>)

\* search_track for the candidate tracks[0], once scored.
TrackScored(query, track, artists_str, qr) ==
    SearchResult(query, "track", track, qr[1], qr[2],
                 IF RatGt(qr[1], InclusionThreshold)
                 THEN <<ResolvedTrack(track.uri, track.name, artists_str,
                                      PfxTrack \o query)>>
                 ELSE <<>>)

TrackWithArtists(query, track, artists_str) ==
    TrackScored(query, track, artists_str,
                calculate_match_quality(query, track.name, artists_str))

\* search_track for the candidate tracks[0]; miss is the first key the
\* code reads that the record lacks ("" when it is complete).
TrackCandidate(query, track, miss) ==
    IF miss # "" THEN SearchError(query, "track", KeyErrorMsg(miss))
    ELSE TrackWithArtists(query, track, format_artists(track))

\* Mutant of search_track: no except clause around the search call.
search_track_unguarded(query, resp) ==
    IF resp.kind = "raise" THEN [exc |-> TRUE, msg |-> resp.msg]
    ELSE IF resp.items = <<>> THEN NoResults(query, "track")
    ELSE TrackCandidate(query, resp.items[1],
                        FirstMissing(resp.items[1], <<"artists", "name", "uri">>))

\* search_track(sp, query), given what sp.search(q=query, type="track",
\* limit=1) did: resp.kind = "raise" (with resp.msg) or "ok" (resp.items).
search_track(query, resp) ==
    IF resp.kind = "raise" THEN SearchError(query, "track", resp.msg)
    ELSE IF resp.items = <<>> THEN NoResults(query, "track")
    ELSE TrackCandidate(query, resp.items[1],
                        FirstMissing(resp.items[1], <<"artists", "name", "uri">>))

\* --------------------------------------------------------- album search

Final(result) == [final |-> TRUE, result |-> result]

\* Mutant of AlbumScored: a rejected album is reported as not found.
AlbumScored_hides_rejected(query, album, qr) ==
    IF RatGt(qr[1], InclusionThreshold) /\ "id" \notin album.missing
    THEN [final |-> FALSE, album |-> album, quality |-> qr[1],
          reason |-> qr[2]]
    ELSE Final(SearchResult(query, "album", None, qr[1], qr[2], <<>>))

\* search_album for the candidate albums[0], once scored: the track
\* listing is requested when quality > 0.2 (and album["id"] can be read).
AlbumScored(query, album, qr) ==
    IF RatGt(qr[1], InclusionThreshold) /\ "id" \notin album.missing
    THEN [final |-> FALSE, album |-> album, quality |-> qr[1],
          reason |-> qr[2]]
    ELSE Final(SearchResult(query, "album", album, qr[1], qr[2], <<>>))

AlbumCandidate(query, album, miss) ==
    IF miss # "" THEN Final(SearchError(query, "album", KeyErrorMsg(miss)))
    ELSE AlbumScored(query, album,
                     calculate_match_quality(query, album.name,
                                             Join(<<",", " ">>, album.artists)))

\* search_album up to the point where it may call sp.album_tracks, given
\* what sp.search(q=query, type="album", limit=1) did. Either the result it
\* returns without a second call (final), or the album found with its score,
\* for which the track listing is requested next.
search_album_hit(query, resp) ==
    IF resp.kind = "raise" THEN Final(SearchError(query, "album", resp.msg))
    ELSE IF resp.items = <<>> THEN Final(NoResults(query, "album"))
    ELSE AlbumCandidate(query, resp.items[1],
                        FirstMissing(resp.items[1], <<"artists", "name">>))

\* The loop over tracks_result["items"] of search_album: every track is
\* appended to resolved_tracks as it is wrapped; the first error ends the
\* loop and what was appended before it stays.
RECURSIVE WrapUntilError(_, _)
WrapUntilError(tracks, source_query) ==
    IF tracks = <<>> THEN <<>>
    ELSE IF FirstMissing(Head(tracks), <<"uri", "name", "artists">>) # ""
    THEN <<>>
    ELSE <<ResolvedTrack(Head(tracks).uri, Head(tracks).name,
                         format_artists(Head(tracks)), source_query)>>
         \o WrapUntilError(Tail(tracks), source_query)

\* The rest of search_album, given what sp.album_tracks(album["id"]) did.
search_album_tracks(query, hit, resp) ==
    SearchResult(query, "album", hit.album, hit.quality, hit.reason,
                 IF resp.kind = "raise" \/ "items" \in resp.missing THEN <<>>
                 ELSE WrapUntilError(resp.items, PfxAlbum \o query))

\* ------------------------------------------------------------ auto mode

Relabel(result, search_type) == [result EXCEPT !.search_type = search_type]

\* Mutant of search_auto_accepts_track: accepted at quality >= 0.4.
search_auto_accepts_at_threshold(track_result) ==
    RatGe(track_result.match_quality, AutoThreshold)

\* Mutant of search_auto_accepts_track: no early return, the album search
\* always follows.
search_auto_never_accepts(track_result) == FALSE

\* search_auto after its track search: the track attempt is returned when
\* its quality exceeds 0.4, otherwise the album search follows.
search_auto_accepts_track(track_result) ==
    RatGt(track_result.match_quality, AutoThreshold)

\* Mutant of search_auto_choose: a tie goes to the album attempt.
search_auto_choose_album_on_tie(track_result, album_result) ==
    IF RatGt(album_result.match_quality, AutoThreshold)
    THEN Relabel(album_result, "auto (found album)")
    ELSE IF RatGt(track_result.match_quality, album_result.match_quality)
    THEN Relabel(track_result, "auto (weak track match)")
    ELSE Relabel(album_result, "auto (weak album match)")

\* search_auto after its album search.
search_auto_choose(track_result, album_result) ==
    IF RatGt(album_result.match_quality, AutoThreshold)
    THEN Relabel(album_result, "auto (found album)")
    ELSE IF RatGe(track_result.match_quality, album_result.match_quality)
    THEN Relabel(track_result, "auto (weak track match)")
    ELSE Relabel(album_result, "auto (weak album match)")

\* ------------------------------------------------------------------ URIs

\* All-or-nothing wrapping of resolve_uri: any malformed track makes the
\* whole resolution fail.
RECURSIVE WrapAll(_, _)
WrapAll(tracks, source_query) ==
    IF tracks = <<>> THEN <<>>
    ELSE <<ResolvedTrack(Head(tracks).uri, Head(tracks).name,
                         format_artists(Head(tracks)), source_query)>>
         \o WrapAll(Tail(tracks), source_query)

\* resolve_uri for "spotify:track:...", given what sp.track(track_id) did:
\* resp.kind = "raise", "none" (a falsy answer) or "ok" (resp.item).
\* The list of tracks, or None.
resolve_uri_track(uri, resp) ==
    IF resp.kind # "ok" THEN None
    ELSE IF FirstMissing(resp.item, <<"uri", "name", "artists">>) # "" THEN None
    ELSE [none |-> FALSE, tracks |-> WrapAll(<<resp.item>>, uri)]

\* resolve_uri for "spotify:album:...", given what sp.album(album_id) did:
\* resp.kind = "raise", "none" or "ok" (resp.item, an album whose
\* ["tracks"]["items"] is resp.item.tracks).
resolve_uri_album(uri, resp) ==
    IF resp.kind # "ok" THEN None
    ELSE IF "tracks" \in resp.item.missing THEN None
    ELSE IF \E k \in 1..Len(resp.item.tracks) :
                FirstMissing(resp.item.tracks[k], <<"uri", "name", "artists">>) # ""
    THEN None
    ELSE [none |-> FALSE, tracks |-> WrapAll(resp.item.tracks, uri)]

\* The SearchResult resolve_items builds from what resolve_uri returned.
uri_result(query, tracks) ==
    IF ~tracks.none /\ tracks.tracks # <<>>
    THEN SearchResult(query, "uri", [uri |-> query, type |-> "uri"], One,
                      PlainReason("Direct URI match"), tracks.tracks)
    ELSE SearchResult(query, "uri", None, Zero,
                      PlainReason("Invalid or inaccessible URI"), <<>>)

\* ------------------------------------------------ inputs of the model

\* The query text of the items: "ab c".
QueryText == <<"a", "b", " ", "c">>

ItemTrack == PfxTrack \o QueryText

\* The items: one of each form parse_item and resolve_uri tell apart.
RawItems ==
    {ItemTrack,
     PfxAlbum \o QueryText,
     <<" ">> \o PfxSingle \o <<" ">> \o QueryText,
     QueryText \o <<" ">>,
     PfxSpotify \o PfxTrack \o <<"1">>,
     PfxSpotify \o PfxAlbum \o <<"2">>,
     PfxSpotify \o <<"s", "h", "o", "w", ":", "3">>}

\* Candidates a search may return. Scored against "ab c":
\* "Ab" by "c" 1.0, "ca" 0.4, "aaac" 0.3, "aaaab" 4/15, "aa" 0.2, "x" 0.0;
\* the last one lacks "name".
Payload(uri, name, artists, missing) ==
    [id |-> uri, uri |-> uri, name |-> name, artists |-> artists,
     missing |-> missing]

CandThree == Payload("three", <<"a", "a", "a", "c">>, <<>>, {})
CandQuarter == Payload("quarter", <<"a", "a", "a", "a", "b">>, <<>>, {})
CandTwo == Payload("two", <<"a", "a">>, <<>>, {})
CandPoor == Payload("poor", <<"x">>, <<>>, {})

Candidates ==
    {Payload("exact", <<"A", "b">>, <<<<"c">>>>, {}),
     Payload("four", <<"c", "a">>, <<>>, {}),
     CandThree, CandQuarter, CandTwo, CandPoor,
     Payload("bad", <<>>, <<>>, {"name"})}

\* Track records of an album.
TrackOne == Payload("t1", <<"x">>, <<<<"c">>, <<"a">>>>, {})
TrackTwo == Payload("t2", <<"a">>, <<>>, {})
TrackBad == Payload("t3", <<"b">>, <<>>, {"uri"})

RaiseResp(msg) == [kind |-> "raise", msg |-> msg]
ItemsResp(items) == [kind |-> "ok", items |-> items, missing |-> {}]
ItemResp(item) == [kind |-> "ok", item |-> item]
AlbumPayload(tracks) ==
    [id |-> "2", uri |-> "album2", tracks |-> tracks, missing |-> {}]

\* What sp.search may do.
SearchResponses ==
    {RaiseResp("API Error"), ItemsResp(<<>>)}
        \cup {ItemsResp(<<c>>) : c \in Candidates}

RECURSIVE SeqsUpTo(_, _)
SeqsUpTo(S, n) ==
    IF n = 0 THEN {<<>>}
    ELSE LET shorter == SeqsUpTo(S, n - 1)
         IN  shorter \cup {Append(q, x) : q \in {r \in shorter : Len(r) = n - 1},
                                          x \in S}

\* ------------------------------------------------------- resolve_items

VARIABLES
    items,           \* the argument of resolve_items
    pc,              \* where the program is: "loop", the provider call it
                     \* is about to make, "done" (resolve_items returned),
                     \* "raised", and the positions of the callers below
    idx,             \* position of the loop in items
    search_results,  \* the list being built
    cur,             \* locals of the iteration: item_type, query, and in
                     \* auto and album mode the track attempt and album hit
    calls,           \* every provider call made so far, with its answer
    stable,          \* the provider answers equal requests equally
    first,           \* what an earlier resolve_items call returned
    dry_run,         \* create_playlist_logic: the --dry-run flag
    output,          \* create_playlist_logic: the --output path, "" if none
    echoed,          \* create_playlist_logic: what it reported with echo_info
    file,            \* the content of the output file, None if not written
    report,          \* what create_playlist_logic returned, None before
    tracks,          \* the argument of create_playlist_from_tracks
    playlist_id,     \* create_playlist_from_tracks: the id of the playlist
                     \* it created, "" before
    batch_from,      \* create_playlist_from_tracks: the loop variable i
    inp,             \* the arguments of a function applied on its own
    ret,             \* what that function returned, None before
    albums,          \* database: the rows of the albums table
    metadata,        \* database: the metadata table, key to text
    play_history,    \* database: the rows of the play_history table
    syncs,           \* the sync files on disk, in the order of their names
    futures,         \* fetch_all_albums_parallel: one future per offset
    albums_by_year,  \* fetch_all_albums_parallel: the merged result
    completed_batches, \* fetch_all_albums_parallel: its counter
    progress,        \* every invocation of progress_callback, in order
    cached           \* what cache.save_albums was given, None if not called

\* The state of the callers of resolve_items.
cliVars == <<dry_run, output, echoed, file, report>>

\* The state of create_playlist_from_tracks.
playlistVars == <<tracks, playlist_id, batch_from>>

\* The state of a function applied on its own.
pureVars == <<inp, ret>>

\* The state of the database and of the sync files.
dbVars == <<albums, metadata, play_history, syncs>>

\* The state of fetch_all_albums_parallel.
fetchVars == <<futures, albums_by_year, completed_batches, progress, cached>>

\* What resolve_items does not touch.
others == <<stable, first, cliVars, playlistVars, pureVars, dbVars, fetchVars>>

vars == <<items, pc, idx, search_results, cur, calls, others>>

Idle == [item_type |-> "", query |-> <<>>, track_result |-> None, hit |-> None]

\* create_playlist_from_tracks is not running.
NoPlaylist ==
    /\ tracks = <<>>
    /\ playlist_id = ""
    /\ batch_from = 0

\* No function is applied on its own.
NoPure ==
    /\ inp = None
    /\ ret = None

\* create_playlist_logic is not running.
NoCli ==
    /\ dry_run = FALSE
    /\ output = ""
    /\ echoed = <<>>
    /\ file = None
    /\ report = None

\* The database as initialize_db leaves a new file, and no sync file.
NoDb ==
    /\ albums = <<>>
    /\ metadata = [total_count |-> None]
    /\ play_history = <<>>
    /\ syncs = <<>>

\* fetch_all_albums_parallel is not running.
NoFetch ==
    /\ futures = <<>>
    /\ albums_by_year = <<>>
    /\ completed_batches = 0
    /\ progress = <<>>
    /\ cached = None

\* No caller: resolve_items is run on its own, once.
NoCaller ==
    /\ first = None
    /\ NoCli
    /\ NoPlaylist
    /\ NoPure
    /\ NoDb
    /\ NoFetch

\* Neither resolve_items nor one of its callers is running.
NoResolve ==
    /\ items = <<>>
    /\ idx = 1
    /\ search_results = <<>>
    /\ cur = Idle
    /\ calls = <<>>
    /\ stable = FALSE
    /\ first = None
    /\ NoCli
    /\ NoDb
    /\ NoFetch

\* The entry of resolve_items.
Init ==
    /\ items \in SeqsUpTo(RawItems, MaxItems)
    /\ pc = "loop"
    /\ idx = 1
    /\ search_results = <<>>
    /\ cur = Idle
    /\ calls = <<>>
    /\ stable = FALSE
    /\ NoCaller

\* The answers the provider may give to a request: any of S, but the one
\* it gave before when it answers equal requests equally.
Answers(op, type, arg, S) ==
    LET before == {k \in 1..Len(calls) : /\ calls[k].op = op
                                         /\ calls[k].type = type
                                         /\ calls[k].arg = arg}
    IN  IF stable /\ before # {}
        THEN {calls[CHOOSE k \in before : TRUE].resp}
        ELSE S

Call(op, type, arg, limit, resp) ==
    [item |-> idx, op |-> op, type |-> type, arg |-> arg, limit |-> limit,
     resp |-> resp]

\* Mutant of Emit: a result without tracks is not appended.
Emit_skips_empty(result) ==
    /\ cur' = Idle
    /\ IF IsExc(result)
       THEN pc' = "raised" /\ UNCHANGED <<idx, search_results>>
       ELSE /\ pc' = "loop"
            /\ idx' = idx + 1
            /\ search_results' = IF result.resolved_tracks = <<>>
                                 THEN search_results
                                 ELSE Append(search_results, result)

\* search_results.append(result) and the next iteration; an exception that
\* reaches resolve_items leaves it at once.
Emit(result) ==
    /\ cur' = Idle
    /\ IF IsExc(result)
       THEN pc' = "raised" /\ UNCHANGED <<idx, search_results>>
       ELSE /\ pc' = "loop"
            /\ idx' = idx + 1
            /\ search_results' = Append(search_results, result)

\* Which call resolve_uri makes for a URI.
UriKind(uri) ==
    IF StartsWith(uri, PfxSpotify \o PfxTrack) THEN "track"
    ELSE IF StartsWith(uri, PfxSpotify \o PfxAlbum) THEN "album"
    ELSE "other"

\* The branch of resolve_items on item_type. A URI that names neither a
\* track nor an album makes resolve_uri return None without any call.
Branch(item_type, query) ==
    IF item_type = "uri" /\ UriKind(query) = "other"
    THEN Emit(uri_result(query, None))
    ELSE /\ pc' = IF item_type = "uri"
                  THEN (IF UriKind(query) = "track"
                        THEN "sp_track" ELSE "sp_album")
                  ELSE IF item_type = "album" THEN "search_album"
                  ELSE "search_track"
         /\ cur' = [Idle EXCEPT !.item_type = item_type, !.query = query]
         /\ UNCHANGED <<idx, search_results>>

\* for item in items: parse_item(item) and the branch on item_type, up to
\* the first provider call.
Dispatch ==
    /\ pc = "loop"
    /\ idx <= Len(items)
    /\ Branch(parse_item(items[idx])[1], parse_item(items[idx])[2])
    /\ UNCHANGED <<items, calls, others>>

\* Mutant of AfterTrackSearch: a search that failed is tried a second time.
AfterTrackSearch_retry(track_result) ==
    IF /\ ~IsExc(track_result)
       /\ track_result.quality_reason.text = "Search error: "
       /\ (calls = <<>> \/ calls[Len(calls)].item # idx)
    THEN /\ pc' = "search_track"
         /\ UNCHANGED <<cur, idx, search_results>>
    ELSE IF cur.item_type = "track" \/ IsExc(track_result)
    THEN Emit(track_result)
    ELSE IF search_auto_accepts_track(track_result)
    THEN Emit(Relabel(track_result, "auto (found track)"))
    ELSE /\ pc' = "search_album"
         /\ cur' = [cur EXCEPT !.track_result = track_result]
         /\ UNCHANGED <<idx, search_results>>

\* What follows search_track: the result is appended for a track item; in
\* auto mode it is returned relabeled when its quality exceeds 0.4, and the
\* album search comes next otherwise.
AfterTrackSearch(track_result) ==
    IF cur.item_type = "track" \/ IsExc(track_result) THEN Emit(track_result)
    ELSE IF search_auto_accepts_track(track_result)
    THEN Emit(Relabel(track_result, "auto (found track)"))
    ELSE /\ pc' = "search_album"
         /\ cur' = [cur EXCEPT !.track_result = track_result]
         /\ UNCHANGED <<idx, search_results>>

\* sp.search(q=query, type="track", limit=1) in search_track, for a track
\* item or as the first attempt of search_auto.
SpSearchTrack ==
    /\ pc = "search_track"
    /\ \E resp \in Answers("search", "track", cur.query, SearchResponses) :
        /\ calls' = Append(calls, Call("search", "track", cur.query, 1, resp))
        /\ AfterTrackSearch(search_track(cur.query, resp))
    /\ UNCHANGED <<items, others>>

\* What resolve_items does with the result of search_album: appended as it
\* is for an album item, chosen against the track attempt in auto mode.
AlbumDone(album_result) ==
    IF cur.item_type = "album" \/ IsExc(album_result) THEN Emit(album_result)
    ELSE Emit(search_auto_choose(cur.track_result, album_result))

\* What follows the album search of search_album.
AfterAlbumSearch(hit) ==
    IF IsExc(hit) THEN Emit(hit)
    ELSE IF hit.final THEN AlbumDone(hit.result)
    ELSE /\ pc' = "album_tracks"
         /\ cur' = [cur EXCEPT !.hit = hit]
         /\ UNCHANGED <<idx, search_results>>

\* sp.search(q=query, type="album", limit=1) in search_album.
SpSearchAlbum ==
    /\ pc = "search_album"
    /\ \E resp \in Answers("search", "album", cur.query, SearchResponses) :
        /\ calls' = Append(calls, Call("search", "album", cur.query, 1, resp))
        /\ AfterAlbumSearch(search_album_hit(cur.query, resp))
    /\ UNCHANGED <<items, others>>

\* sp.album_tracks(album["id"]) in search_album: it raises, or returns two
\* tracks, the second of which may be malformed.
SpAlbumTracks ==
    /\ pc = "album_tracks"
    /\ \E resp \in Answers("album_tracks", "", cur.hit.album.id,
                            {RaiseResp("Track fetch error"),
                             ItemsResp(<<TrackOne, TrackTwo>>),
                             ItemsResp(<<TrackOne, TrackBad>>)}) :
        /\ calls' = Append(calls, Call("album_tracks", "", cur.hit.album.id, 0, resp))
        /\ AlbumDone(search_album_tracks(cur.query, cur.hit, resp))
    /\ UNCHANGED <<items, others>>

\* sp.track(track_id) in resolve_uri: it raises, or returns nothing, a
\* track, or a malformed one.
SpTrack ==
    /\ pc = "sp_track"
    /\ \E resp \in Answers("track", "", LastSegment(cur.query),
                            {RaiseResp("Not found"), [kind |-> "none"],
                             ItemResp(TrackOne), ItemResp(TrackBad)}) :
        /\ calls' = Append(calls, Call("track", "", LastSegment(cur.query), 0, resp))
        /\ Emit(uri_result(cur.query, resolve_uri_track(cur.query, resp)))
    /\ UNCHANGED <<items, others>>

\* sp.album(album_id) in resolve_uri: it raises, or returns nothing, or an
\* album of no track, of two tracks, or of a track and a malformed one.
SpAlbum ==
    /\ pc = "sp_album"
    /\ \E resp \in Answers("album", "", LastSegment(cur.query),
                            {RaiseResp("Not found"), [kind |-> "none"],
                             ItemResp(AlbumPayload(<<>>)),
                             ItemResp(AlbumPayload(<<TrackOne, TrackTwo>>)),
                             ItemResp(AlbumPayload(<<TrackOne, TrackBad>>))}) :
        /\ calls' = Append(calls, Call("album", "", LastSegment(cur.query), 0, resp))
        /\ Emit(uri_result(cur.query, resolve_uri_album(cur.query, resp)))
    /\ UNCHANGED <<items, others>>

\* return search_results
Return ==
    /\ pc = "loop"
    /\ idx > Len(items)
    /\ pc' = "done"
    /\ UNCHANGED <<items, idx, search_results, cur, calls, others>>

Next ==
    \/ Dispatch
    \/ SpSearchTrack
    \/ SpSearchAlbum
    \/ SpAlbumTracks
    \/ SpTrack
    \/ SpAlbum
    \/ Return

Spec == Init /\ [][Next]_vars

\* ------------------------------------------ create_playlist_from_tracks

\* batch_size = 100
batch_size == 100

\* track_uris = [track.uri for track in tracks]
TrackUris(ts) == [k \in 1..Len(ts) |-> ts[k].uri]

\* Mutant of Batch: the slice ends one element too late.
Batch_one_more(track_uris, i) ==
    SubSeq(track_uris, i + 1,
           IF i + batch_size + 1 < Len(track_uris)
           THEN i + batch_size + 1 ELSE Len(track_uris))

\* batch = track_uris[i : i + batch_size]
Batch(track_uris, i) ==
    SubSeq(track_uris, i + 1,
           IF i + batch_size < Len(track_uris)
           THEN i + batch_size ELSE Len(track_uris))

\* A provider call of create_playlist_from_tracks that raised ends it; its
\* callers do not catch the exception.
Proceed(resp, next) == pc' = IF resp.kind = "raise" THEN "raised" ELSE next

\* user = sp.current_user(); user_id = user["id"]. The call raises or
\* returns the user.
SpCurrentUser ==
    /\ pc = "current_user"
    /\ \E resp \in Answers("current_user", "", <<>>,
                           {RaiseResp("Unauthorized"), ItemResp([id |-> "user"])}) :
        /\ calls' = Append(calls, Call("current_user", "", <<>>, 0, resp))
        /\ Proceed(resp, "user_playlist_create")
    /\ UNCHANGED <<items, idx, search_results, cur, stable, first, cliVars,
                   playlistVars, pureVars,
                   dbVars, fetchVars>>

\* playlist = sp.user_playlist_create(user_id, name, public=False, ...);
\* playlist_id = playlist["id"]. The user id is the one current_user gave;
\* the call raises or returns the playlist.
SpUserPlaylistCreate ==
    /\ pc = "user_playlist_create"
    /\ \E resp \in Answers("user_playlist_create", "", "user",
                           {RaiseResp("Forbidden"),
                            ItemResp([id |-> "playlist"])}) :
        /\ calls' = Append(calls, Call("user_playlist_create", "", "user", 0, resp))
        /\ playlist_id' = IF resp.kind = "raise" THEN playlist_id
                          ELSE resp.item.id
        /\ Proceed(resp, "add_items")
    /\ batch_from' = 0
    /\ UNCHANGED <<items, idx, search_results, cur, stable, first, cliVars,
                   tracks, pureVars,
                   dbVars, fetchVars>>

\* One iteration of for i in range(0, len(track_uris), batch_size):
\* sp.playlist_add_items(playlist_id, batch), which raises or returns a
\* snapshot.
SpPlaylistAddItems ==
    /\ pc = "add_items"
    /\ batch_from < Len(tracks)
    /\ \E resp \in {RaiseResp("Rate limited"),
                     ItemResp([snapshot_id |-> "snapshot"])} :
        /\ calls' = Append(calls, Call("playlist_add_items", playlist_id,
                                       Batch(TrackUris(tracks), batch_from),
                                       0, resp))
        /\ Proceed(resp, "add_items")
    /\ batch_from' = batch_from + batch_size
    /\ UNCHANGED <<items, idx, search_results, cur, stable, first, cliVars,
                   tracks, playlist_id, pureVars,
                   dbVars, fetchVars>>

\* return playlist_id
ReturnPlaylistId ==
    /\ pc = "add_items"
    /\ batch_from >= Len(tracks)
    /\ pc' = "created"
    /\ UNCHANGED <<items, idx, search_results, cur, calls, stable, first,
                   cliVars, playlistVars, pureVars,
                   dbVars, fetchVars>>

\* The argument is a list of at most MaxTracks tracks; the k-th has the
\* URI k.
InitPlaylist ==
    /\ tracks \in {[k \in 1..n |-> ResolvedTrack(k, <<>>, <<>>, <<>>)] :
                      n \in 0..MaxTracks}
    /\ playlist_id = ""
    /\ batch_from = 0
    /\ pc = "current_user"
    /\ NoResolve
    /\ NoPure

NextPlaylist ==
    \/ SpCurrentUser
    \/ SpUserPlaylistCreate
    \/ SpPlaylistAddItems
    \/ ReturnPlaylistId

SpecPlaylist == InitPlaylist /\ [][NextPlaylist]_vars

\* ------------------------------------------------- resolve_items, twice

\* Mutant of NewList: the list of an earlier call is used again.
NewList_shared == search_results

\* search_results = []
NewList == <<>>

\* The caller keeps what resolve_items returned and calls it a second time
\* with the same items.
ResolveAgain ==
    /\ pc = "done"
    /\ first = None
    /\ first' = [results |-> search_results]
    /\ search_results' = NewList
    /\ idx' = 1
    /\ cur' = Idle
    /\ pc' = "loop"
    /\ UNCHANGED <<items, calls, stable, cliVars, playlistVars, pureVars,
                   dbVars, fetchVars>>

\* The provider answers equal requests equally.
InitTwice ==
    /\ items \in SeqsUpTo(RawItems, MaxItems)
    /\ pc = "loop"
    /\ idx = 1
    /\ search_results = <<>>
    /\ cur = Idle
    /\ calls = <<>>
    /\ stable = TRUE
    /\ NoCaller

NextTwice ==
    \/ Dispatch
    \/ SpSearchTrack
    \/ SpSearchAlbum
    \/ SpAlbumTracks
    \/ SpTrack
    \/ SpAlbum
    \/ Return
    \/ ResolveAgain

SpecTwice == InitTwice /\ [][NextTwice]_vars

\* ------------------------------------------------ create_playlist_logic

\* What echo_info reports, as records: kind names the line, the other
\* fields are the values it shows.
Line(kind, about, value) == [kind |-> kind, about |-> about, value |-> value]

\* Mutant of ExtractStep: an item counts as skipped only when nothing was
\* found for it.
ExtractStep_unfound_only(acc, result) ==
    IF result.found_item # None
    THEN [acc EXCEPT !.tracks = acc.tracks \o result.resolved_tracks]
    ELSE [acc EXCEPT !.skipped = Append(acc.skipped, result.query)]

\* Mutant of ExtractStep: only the first track of a result is taken.
ExtractStep_first_track(acc, result) ==
    IF result.resolved_tracks # <<>>
    THEN [acc EXCEPT !.tracks = Append(acc.tracks, result.resolved_tracks[1])]
    ELSE [acc EXCEPT !.skipped = Append(acc.skipped, result.query)]

\* The body of the loop of extract_tracks_from_search_results.
ExtractStep(acc, result) ==
    IF result.resolved_tracks # <<>>
    THEN [acc EXCEPT !.tracks = acc.tracks \o result.resolved_tracks]
    ELSE [acc EXCEPT !.skipped = Append(acc.skipped, result.query)]

RECURSIVE ExtractFrom(_, _)
ExtractFrom(results, acc) ==
    IF results = <<>> THEN acc
    ELSE ExtractFrom(Tail(results), ExtractStep(acc, Head(results)))

\* resolved_tracks, skipped_items = extract_tracks_from_search_results(...)
extract_tracks_from_search_results(results) ==
    ExtractFrom(results, [tracks |-> <<>>, skipped |-> <<>>])

\* if result.match_quality < 0.4: poor_matches.append(result)
poor_matches(results) ==
    SelectSeq(results, LAMBDA r : RatLt(r.match_quality, Rat(4, 10)))

\* all_resolved_tracks.extend(result.resolved_tracks), for every result
RECURSIVE all_resolved_tracks(_)
all_resolved_tracks(results) ==
    IF results = <<>> THEN <<>>
    ELSE Head(results).resolved_tracks \o all_resolved_tracks(Tail(results))

\* Mutant of IsGoodMatch: a quality of exactly 0.3 is not good enough.
IsGoodMatch_above(result) == RatGt(result.match_quality, Rat(3, 10))

\* if result.match_quality >= 0.3
IsGoodMatch(result) == RatGe(result.match_quality, Rat(3, 10))

\* good_tracks = [track for result in search_results
\*                if result.match_quality >= 0.3
\*                for track in result.resolved_tracks]
good_tracks(results) == all_resolved_tracks(SelectSeq(results, IsGoodMatch))

\* The lines of the per-result analysis, the summary and the poor matches.
AnalysisLines(results) ==
    [k \in 1..Len(results) |->
        Line("result", results[k].query, Len(results[k].resolved_tracks))]
    \o <<Line("summary", Len(results), Len(all_resolved_tracks(results))),
         Line("poor_count", "", Len(poor_matches(results)))>>
    \o [k \in 1..Len(poor_matches(results)) |->
           Line("poor", poor_matches(results)[k].query,
                poor_matches(results)[k].quality_reason)]

\* write_uris_to_file(file_path, resolved_tracks): one URI per line; False
\* and no file when it cannot be written.
Written(ts) == [lines |-> TrackUris(ts)]

\* The end of _handle_dry_run: the command for the good matches, with the
\* URIs as arguments or, with --output, written to the file.
ShowCommand(lines, good, wrote) ==
    IF good = <<>> THEN echoed' = lines /\ UNCHANGED file
    ELSE IF output = ""
    THEN /\ echoed' = Append(lines, Line("command", "", TrackUris(good)))
         /\ UNCHANGED file
    ELSE IF wrote
    THEN /\ file' = Written(good)
         /\ echoed' = Append(lines, Line("command_file", output, <<>>))
    ELSE /\ echoed' = Append(lines, Line("write_error", output, <<>>))
         /\ UNCHANGED file

\* The entry of create_playlist_logic: nothing to do without items, else
\* one of the two handlers, which both start with resolve_items.
CreatePlaylistLogic ==
    /\ pc = "logic"
    /\ IF items = <<>>
       THEN /\ pc' = "returned"
            /\ report' = [success |-> FALSE, error |-> "no_items"]
            /\ echoed' = Append(echoed, Line("no_items", "", <<>>))
       ELSE /\ pc' = "loop"
            /\ UNCHANGED <<report, echoed>>
    /\ UNCHANGED <<items, idx, search_results, cur, calls, stable, first,
                   dry_run, output, file, playlistVars, pureVars,
                   dbVars, fetchVars>>

\* _handle_dry_run after resolve_items has returned.
HandleDryRun ==
    /\ pc = "done"
    /\ dry_run
    /\ \E wrote \in BOOLEAN :
        ShowCommand(AnalysisLines(search_results), good_tracks(search_results),
                    wrote)
    /\ report' = [success |-> TRUE, dry_run |-> TRUE,
                  tracks_found |-> Len(all_resolved_tracks(search_results)),
                  poor_matches |-> Len(poor_matches(search_results))]
    /\ pc' = "returned"
    /\ UNCHANGED <<items, idx, search_results, cur, calls, stable, first,
                   dry_run, output, playlistVars, pureVars,
                   dbVars, fetchVars>>

\* Mutant of HandleCreatePlaylist: no playlist is created without tracks.
HandleCreatePlaylist_skips_empty ==
    /\ pc = "done"
    /\ ~dry_run
    /\ tracks' = extract_tracks_from_search_results(search_results).tracks
    /\ pc' = IF tracks' = <<>> THEN "created" ELSE "current_user"
    /\ UNCHANGED <<items, idx, search_results, cur, calls, stable, first,
                   cliVars, playlist_id, batch_from, pureVars,
                   dbVars, fetchVars>>

\* Mutant of HandleCreatePlaylist: the playlist is created in a dry run too.
HandleCreatePlaylist_any_mode ==
    /\ pc = "done"
    /\ tracks' = extract_tracks_from_search_results(search_results).tracks
    /\ pc' = "current_user"
    /\ UNCHANGED <<items, idx, search_results, cur, calls, stable, first,
                   cliVars, playlist_id, batch_from, pureVars,
                   dbVars, fetchVars>>

\* _handle_create_playlist after resolve_items has returned, up to the
\* first provider call of create_playlist_from_tracks.
HandleCreatePlaylist ==
    /\ pc = "done"
    /\ ~dry_run
    /\ tracks' = extract_tracks_from_search_results(search_results).tracks
    /\ pc' = "current_user"
    /\ UNCHANGED <<items, idx, search_results, cur, calls, stable, first,
                   cliVars, playlist_id, batch_from, pureVars,
                   dbVars, fetchVars>>

\* The report of _handle_create_playlist: the playlist, the output file if
\* asked for, the skipped items.
ReportCreated(skipped, wrote) ==
    /\ echoed' =
         <<Line("created", playlist_id, Len(tracks))>>
         \o (IF output = "" THEN <<>>
             ELSE IF wrote THEN <<Line("written", output, <<>>)>>
             ELSE <<Line("write_warning", output, <<>>)>>)
         \o (IF skipped = <<>> THEN <<>>
             ELSE <<Line("skipped_count", "", Len(skipped))>>
                  \o [k \in 1..Len(skipped) |->
                         Line("skipped", skipped[k], <<>>)])
    /\ file' = IF output # "" /\ wrote THEN Written(tracks) ELSE file
    /\ report' = [success |-> TRUE, playlist_id |-> playlist_id,
                  tracks_count |-> Len(tracks),
                  skipped_count |-> Len(skipped)]

\* _handle_create_playlist after create_playlist_from_tracks has returned.
FinishCreatePlaylist ==
    /\ pc = "created"
    /\ \E wrote \in BOOLEAN :
        ReportCreated(extract_tracks_from_search_results(search_results).skipped,
                      wrote)
    /\ pc' = "returned"
    /\ UNCHANGED <<items, idx, search_results, cur, calls, stable, first,
                   dry_run, output, playlistVars, pureVars,
                   dbVars, fetchVars>>

InitCli ==
    /\ items \in SeqsUpTo(RawItems, MaxItems)
    /\ dry_run \in BOOLEAN
    /\ output \in {"", "uris.txt"}
    /\ pc = "logic"
    /\ idx = 1
    /\ search_results = <<>>
    /\ cur = Idle
    /\ calls = <<>>
    /\ stable = FALSE
    /\ first = None
    /\ echoed = <<>>
    /\ file = None
    /\ report = None
    /\ NoPlaylist
    /\ NoPure
    /\ NoDb
    /\ NoFetch

NextCli ==
    \/ CreatePlaylistLogic
    \/ Dispatch
    \/ SpSearchTrack
    \/ SpSearchAlbum
    \/ SpAlbumTracks
    \/ SpTrack
    \/ SpAlbum
    \/ Return
    \/ HandleDryRun
    \/ HandleCreatePlaylist
    \/ SpCurrentUser
    \/ SpUserPlaylistCreate
    \/ SpPlaylistAddItems
    \/ ReturnPlaylistId
    \/ FinishCreatePlaylist

SpecCli == InitCli /\ [][NextCli]_vars

\* ------------------------------------------- the scorer, applied alone

\* Queries and candidate names: every text of at most MaxLen characters
\* over a letter, a second letter and the blank.  The candidate name may
\* also be one that shares one character in twelve with a query; the
\* artists string is empty, a capital, or a name with punctuation.
InitScore ==
    /\ inp \in [query : SeqsUpTo({"a", "b", " "}, MaxLen),
                result_name : SeqsUpTo({"a", "b", " "}, MaxLen) \cup
                    {<<"a", "b", "b", "b", "b", "b", "b", "b", "b", "b", "b", "b">>},
                result_artists : {<<>>, <<"A">>, <<"b", "!">>}]
    /\ ret = None
    /\ pc = "apply"
    /\ NoResolve
    /\ NoPlaylist

\* quality, reason = calculate_match_quality(query, result_name, artists)
ApplyMatchQuality ==
    /\ pc = "apply"
    /\ pc' = "applied"
    /\ \E pair \in {calculate_match_quality(inp.query, inp.result_name,
                                            inp.result_artists)} :
        ret' = [fn |-> "calculate_match_quality",
                quality |-> pair[1], reason |-> pair[2]]
    /\ UNCHANGED <<items, idx, search_results, cur, calls, stable, first,
                   cliVars, playlistVars, inp,
                   dbVars, fetchVars>>

\* search_track(sp, query) with sp.search returning the candidate whose
\* name and artists are the arguments.
ApplySearchTrack ==
    /\ pc = "apply"
    /\ pc' = "applied"
    /\ ret' = [fn |-> "search_track",
               result |-> search_track(inp.query,
                   ItemsResp(<<Payload("u", inp.result_name,
                                       IF inp.result_artists = <<>> THEN <<>>
                                       ELSE <<inp.result_artists>>, {})>>))]
    /\ UNCHANGED <<items, idx, search_results, cur, calls, stable, first,
                   cliVars, playlistVars, inp,
                   dbVars, fetchVars>>

NextScore ==
    \/ ApplyMatchQuality
    \/ ApplySearchTrack

SpecScore == InitScore /\ [][NextScore]_vars

\* --------------------------------------- the classifier, applied alone

\* Items: blanks, up to two prefixes (or near misses of one) and a text of
\* at most MaxBody characters, with blanks between the parts.
InitParse ==
    /\ inp \in {[item_string |-> lead \o p1 \o mid \o p2 \o body \o trail] :
                   lead \in {<<>>, <<" ">>, <<"\t", " ">>},
                   p1, p2 \in {<<>>, PfxSpotify, PfxAlbum, PfxSingle, PfxTrack,
                              <<"A", "l", "b", "u", "m", ":">>,
                              <<"t", "r", "a", "c", "k">>},
                   mid \in {<<>>, <<" ">>},
                   body \in SeqsUpTo({"x", " ", ":"}, MaxBody),
                   trail \in {<<>>, <<"\n">>}}
    /\ ret = None
    /\ pc = "apply"
    /\ NoResolve
    /\ NoPlaylist

\* item_type, query = parse_item(item_string)
ApplyParseItem ==
    /\ pc = "apply"
    /\ pc' = "applied"
    /\ \E pair \in {parse_item(inp.item_string)} :
        ret' = [fn |-> "parse_item", item_type |-> pair[1], query |-> pair[2]]
    /\ UNCHANGED <<items, idx, search_results, cur, calls, stable, first,
                   cliVars, playlistVars, inp,
                   dbVars, fetchVars>>

NextParse == ApplyParseItem

SpecParse == InitParse /\ [][NextParse]_vars

\* ============================================================== claims

\* The provider calls made for item i, in order.
CallsOf(i) == SelectSeq(calls, LAMBDA c : c.item = i)

ItemType(i) == parse_item(items[i])[1]
ItemQuery(i) == parse_item(items[i])[2]

\* The items resolve_items is done with.
Resolved == 1..Len(search_results)

\* A record of the provider that lacks a key the code reads.
Malformed(payload) == payload.missing # {}

\* The answer of a call is a failure: the call raised, or a record in the
\* payload is malformed.
FailedResp(resp) ==
    \/ resp.kind = "raise"
    \/ /\ resp.kind = "ok"
       /\ "items" \in DOMAIN resp
       /\ \E k \in 1..Len(resp.items) : Malformed(resp.items[k])
    \/ /\ resp.kind = "ok"
       /\ "item" \in DOMAIN resp
       /\ \/ Malformed(resp.item)
          \/ /\ "tracks" \in DOMAIN resp.item
             /\ \E k \in 1..Len(resp.item.tracks) : Malformed(resp.item.tracks[k])

\* What search_album returns given the answers cs of its calls.
AlbumAttempt(q, cs) ==
    LET hit == search_album_hit(q, cs[1].resp)
    IN  IF hit.final THEN hit.result
        ELSE search_album_tracks(q, hit, cs[2].resp)

\* What resolving one item on its own returns, given the answers cs of the
\* calls made for it.
ResolutionOf(item, cs) ==
    LET t == parse_item(item)[1]
        q == parse_item(item)[2]
    IN  IF t = "uri"
        THEN (IF UriKind(q) = "track"
              THEN uri_result(q, resolve_uri_track(q, cs[1].resp))
              ELSE IF UriKind(q) = "album"
              THEN uri_result(q, resolve_uri_album(q, cs[1].resp))
              ELSE uri_result(q, None))
        ELSE IF t = "track" THEN search_track(q, cs[1].resp)
        ELSE IF t = "album" THEN AlbumAttempt(q, cs)
        ELSE LET tr == search_track(q, cs[1].resp)
             IN  IF RatGt(tr.match_quality, Rat(4, 10))
                 THEN Relabel(tr, "auto (found track)")
                 ELSE search_auto_choose(tr, AlbumAttempt(q, Tail(cs)))

\* C1: resolve_items returns exactly len(items) results, and the i-th result
\* is the resolution of the i-th input item (nothing dropped, merged or
\* reordered; a duplicated input has a result at each of its positions).
C1_OneResultPerItemInOrder ==
    /\ pc # "raised"
    /\ Len(search_results) = idx - 1
    /\ pc = "done" => Len(search_results) = Len(items)
    /\ \A i \in Resolved : search_results[i] = ResolutionOf(items[i], CallsOf(i))

\* The same input twice, resolved to two different results, each at its own
\* position.
C1_Witness ==
    /\ pc = "done"
    /\ Len(items) = 2
    /\ items[1] = items[2]
    /\ search_results[1] # search_results[2]
    /\ search_results[2].resolved_tracks # <<>>

\* The calls of item i include a failure.
ItemFailed(i) == \E k \in 1..Len(CallsOf(i)) : FailedResp(CallsOf(i)[k].resp)

\* C2: resolve_items never raises, and when a provider call made for item i
\* fails, item i still gets a result and every other item j gets the result
\* it gets on its own.
C2_Isolation ==
    /\ pc # "raised"
    /\ pc = "done" =>
         \A i \in 1..Len(items) :
            ItemFailed(i) =>
              /\ Len(search_results) = Len(items)
              /\ \A j \in 1..Len(items) \ {i} :
                    search_results[j] = ResolutionOf(items[j], CallsOf(j))

\* The first item failed on a raising search, the second one resolved to
\* tracks.
C2_Witness ==
    /\ pc = "done"
    /\ Len(items) = 2
    /\ CallsOf(1) # <<>>
    /\ CallsOf(1)[1].resp.kind = "raise"
    /\ search_results[1].resolved_tracks = <<>>
    /\ ~ItemFailed(2)
    /\ search_results[2].resolved_tracks # <<>>

\* C3: in every search-derived result resolved_tracks is empty when
\* match_quality is not strictly greater than 0.2 (0.2 itself included).
C3_NoTracksAtOrBelowThreshold ==
    \A i \in Resolved :
        (/\ search_results[i].search_type # "uri"
         /\ RatLe(search_results[i].match_quality, Rat(2, 10)))
            => search_results[i].resolved_tracks = <<>>

\* A candidate scored exactly 0.2 was found and its tracks were not kept.
C3_Witness ==
    \E i \in Resolved :
        /\ search_results[i].search_type # "uri"
        /\ search_results[i].found_item # None
        /\ search_results[i].match_quality = Rat(2, 10)
        /\ search_results[i].resolved_tracks = <<>>

\* The provider returned the requested track or album, well-formed.
UriFetched(i) ==
    /\ CallsOf(i) # <<>>
    /\ CallsOf(i)[1].resp.kind = "ok"
    /\ ~FailedResp(CallsOf(i)[1].resp)

IsDirectMatch(r) ==
    /\ r.search_type = "uri"
    /\ r.match_quality = One
    /\ r.quality_reason = PlainReason("Direct URI match")

IsInvalidUri(r) ==
    /\ r.search_type = "uri"
    /\ r.found_item = None
    /\ r.match_quality = Zero
    /\ r.quality_reason = PlainReason("Invalid or inaccessible URI")
    /\ r.resolved_tracks = <<>>

\* C4: for every URI item, the result is a direct match (search_type "uri",
\* match_quality 1.0, reason "Direct URI match") whenever the provider
\* returned the requested track or album without failure, an album of any
\* track count included, and the invalid-URI result (found_item None, 0.0,
\* "Invalid or inaccessible URI", no tracks) whenever resolution failed.
C4_UriResultShape ==
    \A i \in Resolved :
        ItemType(i) = "uri" =>
            IF UriFetched(i) THEN IsDirectMatch(search_results[i])
            ELSE IsInvalidUri(search_results[i])

\* The attempts of search_auto for the resolved auto item i.
TrackAttempt(i) == search_track(ItemQuery(i), CallsOf(i)[1].resp)
AlbumSearched(i) == Len(CallsOf(i)) >= 2
AlbumAttemptOf(i) == AlbumAttempt(ItemQuery(i), Tail(CallsOf(i)))

\* r carries the attempt's quality, reason, found_item and resolved_tracks.
SameButLabel(r, attempt) ==
    /\ r.query = attempt.query
    /\ r.found_item = attempt.found_item
    /\ r.match_quality = attempt.match_quality
    /\ r.quality_reason = attempt.quality_reason
    /\ r.resolved_tracks = attempt.resolved_tracks

\* The attempt search_auto is to return: the track attempt above 0.4, else
\* the album attempt above 0.4, else the better one, the track attempt on a
\* tie.
ChosenAttempt(i) ==
    IF RatGt(TrackAttempt(i).match_quality, Rat(4, 10)) THEN TrackAttempt(i)
    ELSE IF RatGt(AlbumAttemptOf(i).match_quality, Rat(4, 10))
    THEN AlbumAttemptOf(i)
    ELSE IF RatLt(TrackAttempt(i).match_quality, AlbumAttemptOf(i).match_quality)
    THEN AlbumAttemptOf(i)
    ELSE TrackAttempt(i)

\* C5: for an auto item search_auto returns the track attempt if its quality
\* exceeds 0.4, otherwise the album attempt if its quality exceeds 0.4,
\* otherwise the one of higher quality (the track attempt on a tie), with
\* quality, reason, found_item and resolved_tracks unchanged.
C5_AutoChoice ==
    \A i \in Resolved :
        ItemType(i) = "auto" => SameButLabel(search_results[i], ChosenAttempt(i))

\* A tie between two weak attempts that both found a candidate and kept its
\* tracks: the track attempt is returned.
C5_Witness ==
    \E i \in Resolved :
        /\ ItemType(i) = "auto"
        /\ AlbumSearched(i)
        /\ TrackAttempt(i).match_quality = AlbumAttemptOf(i).match_quality
        /\ TrackAttempt(i).resolved_tracks # <<>>
        /\ AlbumAttemptOf(i).resolved_tracks # <<>>
        /\ search_results[i].resolved_tracks = TrackAttempt(i).resolved_tracks

FoundLabels == {"auto (found track)", "auto (found album)"}
WeakLabels == {"auto (weak track match)", "auto (weak album match)"}

\* C6: the result of an auto item is labeled with one of the two "found"
\* labels iff its match_quality > 0.4 and with one of the two "weak" labels
\* iff its match_quality <= 0.4.
C6_AutoLabels ==
    \A i \in Resolved :
        ItemType(i) = "auto" =>
            /\ search_results[i].search_type \in FoundLabels \cup WeakLabels
            /\ search_results[i].search_type \in FoundLabels
                 <=> RatGt(search_results[i].match_quality, Rat(4, 10))
            /\ search_results[i].search_type \in WeakLabels
                 <=> RatLe(search_results[i].match_quality, Rat(4, 10))

\* A track attempt of quality exactly 0.4 returned as a weak match, and a
\* found album.
C6_Witness ==
    /\ \E i \in Resolved :
        /\ ItemType(i) = "auto"
        /\ search_results[i].search_type = "auto (weak track match)"
        /\ search_results[i].match_quality = Rat(4, 10)
    /\ \E i \in Resolved :
        /\ ItemType(i) = "auto"
        /\ search_results[i].search_type = "auto (found album)"

IsTrackSearch(c) == c.op = "search" /\ c.type = "track"
IsAlbumCall(c) == (c.op = "search" /\ c.type = "album") \/ c.op = "album_tracks"

\* Auto items whose resolution has begun.
AutoBegun == {i \in 1..Len(items) : ItemType(i) = "auto" /\ CallsOf(i) # <<>>}

\* C7: in auto mode the track search comes before any album call; the album
\* search and the track listing are issued only when the track attempt's
\* quality is <= 0.4; a track attempt above 0.4 resolves the item with
\* exactly one provider call.
C7_AutoCallOrder ==
    \A i \in AutoBegun :
        /\ IsTrackSearch(CallsOf(i)[1])
        /\ \A k \in 2..Len(CallsOf(i)) : IsAlbumCall(CallsOf(i)[k])
        /\ AlbumSearched(i) => RatLe(TrackAttempt(i).match_quality, Rat(4, 10))
        /\ (i \in Resolved /\ RatGt(TrackAttempt(i).match_quality, Rat(4, 10)))
              => Len(CallsOf(i)) = 1

\* Both outcomes: an auto item resolved by its track search alone, and one
\* that went on to the album search and the track listing.
C7_Witness ==
    /\ \E i \in AutoBegun \cap Resolved :
        /\ Len(CallsOf(i)) = 1
        /\ search_results[i].search_type = "auto (found track)"
    /\ \E i \in AutoBegun \cap Resolved : Len(CallsOf(i)) = 3

\* What the scorer says of a candidate record for query q.
ScoreOf(q, cand) ==
    calculate_match_quality(q, cand.name, Join(<<",", " ">>, cand.artists))

\* The album search of album item i found a candidate scored above 0.2 and
\* the track listing failed.
ListingFailed(i) ==
    /\ ItemType(i) = "album"
    /\ Len(CallsOf(i)) = 2
    /\ FailedResp(CallsOf(i)[2].resp)

\* C8: when an album candidate is found with quality > 0.2 and the track
\* listing fails (album_tracks raises, or a track record is malformed), the
\* result has no resolved tracks while found_item is the album and
\* match_quality and quality_reason are the album-level score.
C8_ListingFailureKeepsNoTracks ==
    \A i \in Resolved :
        ListingFailed(i) =>
            /\ search_results[i].resolved_tracks = <<>>
            /\ search_results[i].found_item = CallsOf(i)[1].resp.items[1]
            /\ search_results[i].match_quality
                 = ScoreOf(ItemQuery(i), CallsOf(i)[1].resp.items[1])[1]
            /\ search_results[i].quality_reason
                 = ScoreOf(ItemQuery(i), CallsOf(i)[1].resp.items[1])[2]

\* Track and album items whose search call raised.
SearchRaised ==
    {i \in Resolved : /\ ItemType(i) \in {"track", "album"}
                      /\ CallsOf(i)[1].resp.kind = "raise"}

\* C9: when the provider raises during the search call of a track or album
\* item, the result has found_item None, match_quality 0.0, no resolved
\* tracks and the reason "Search error: " followed by the error message, and
\* the error is not re-raised.
C9_SearchErrorResult ==
    /\ pc # "raised"
    /\ \A i \in SearchRaised :
        /\ search_results[i].found_item = None
        /\ search_results[i].match_quality = Zero
        /\ search_results[i].resolved_tracks = <<>>
        /\ search_results[i].quality_reason.text = "Search error: "
        /\ search_results[i].quality_reason.msg = CallsOf(i)[1].resp.msg
        /\ search_results[i].quality_reason.msg # ""

\* A track item and an album item whose searches raised, both resolved.
C9_Witness ==
    /\ pc = "done"
    /\ \E i \in SearchRaised : ItemType(i) = "track"
    /\ \E i \in SearchRaised : ItemType(i) = "album"

\* Items resolved by a search.
SearchDerived == {i \in Resolved : ItemType(i) # "uri"}

\* The search call whose attempt became the result of item i: the only
\* search of a track or album item, and in auto mode the one the label of
\* the result names.
DecidingSearch(i) ==
    IF ItemType(i) = "auto"
         /\ search_results[i].search_type
              \in {"auto (found album)", "auto (weak album match)"}
    THEN CallsOf(i)[2]
    ELSE CallsOf(i)[1]

ReturnedCandidate(c) == c.resp.kind = "ok" /\ c.resp.items # <<>>

\* The name or the artists of the candidate cannot be read, or for a track
\* search its uri.
Unreadable(c) ==
    \/ c.resp.items[1].missing \cap {"artists", "name"} # {}
    \/ c.type = "track" /\ "uri" \in c.resp.items[1].missing

\* A rejected candidate is reported: quality <= 0.2 gives no tracks, the
\* candidate as found_item and the scorer's quality and reason.
RejectedStillReported(i) ==
    (/\ ReturnedCandidate(DecidingSearch(i))
     /\ ~Unreadable(DecidingSearch(i))
     /\ RatLe(ScoreOf(ItemQuery(i), DecidingSearch(i).resp.items[1])[1],
              Rat(2, 10)))
      => /\ search_results[i].resolved_tracks = <<>>
         /\ search_results[i].found_item = DecidingSearch(i).resp.items[1]
         /\ search_results[i].match_quality
              = ScoreOf(ItemQuery(i), DecidingSearch(i).resp.items[1])[1]
         /\ search_results[i].quality_reason
              = ScoreOf(ItemQuery(i), DecidingSearch(i).resp.items[1])[2]

\* C10 as stated: a rejected candidate is still reported, and found_item is
\* None iff the search returned no candidate or raised.
C10_FoundItemNoneIffNoCandidate ==
    \A i \in SearchDerived :
        /\ RejectedStillReported(i)
        /\ search_results[i].found_item = None
             <=> ~ReturnedCandidate(DecidingSearch(i))

\* C10, amended: a rejected candidate is still reported, and found_item is
\* None iff the search raised, returned no candidate, or returned a
\* candidate whose name or artists (for a track also its uri) cannot be read.
C10_FoundItemNoneIffNothingReadable ==
    \A i \in SearchDerived :
        /\ RejectedStillReported(i)
        /\ search_results[i].found_item = None
             <=> (~ReturnedCandidate(DecidingSearch(i))
                  \/ Unreadable(DecidingSearch(i)))

\* A rejected candidate of an album item and one of a track item, both
\* reported with their score and without tracks.
C10_Witness ==
    /\ \E i \in SearchDerived :
        /\ ItemType(i) = "album"
        /\ search_results[i].found_item = CandTwo
        /\ search_results[i].match_quality = Rat(2, 10)
        /\ search_results[i].resolved_tracks = <<>>
    /\ \E i \in SearchDerived :
        /\ ItemType(i) = "track"
        /\ search_results[i].found_item = CandPoor
        /\ search_results[i].quality_reason.text = "Poor match"
        /\ search_results[i].resolved_tracks = <<>>

\* ------------------------------------------------------------------ C16

ScoreApplied == pc = "applied" /\ ret.fn = "calculate_match_quality"

\* C16 as stated: calculate_match_quality("", n, a) returns
\* (0.0, "Empty query") for any candidate name n and any artists string a.
C16_EmptyQueryAnyName ==
    (ScoreApplied /\ inp.query = <<>>)
        => /\ ret.quality = Zero
           /\ ret.reason = PlainReason("Empty query")

\* C16 amended: calculate_match_quality("", n, a) returns
\* (0.0, "Empty query") for any non-empty candidate name n and any artists
\* string a.
C16_EmptyQueryNamedCandidate ==
    (ScoreApplied /\ inp.query = <<>> /\ inp.result_name # <<>>)
        => /\ ret.quality = Zero
           /\ ret.reason = PlainReason("Empty query")

C16_Witness ==
    /\ ScoreApplied
    /\ inp.query = <<>>
    /\ inp.result_name = <<"a", "b">>
    /\ inp.result_artists = <<"A">>
    /\ ret.reason.text = "Empty query"

\* ------------------------------------------------------------------ C17

\* C17: calculate_match_quality(q, "", a) returns (0.0, "No result found")
\* for any query q, the empty one included, and any artists string a.
C17_EmptyNameAnyQuery ==
    (ScoreApplied /\ inp.result_name = <<>>)
        => /\ ret.quality = Zero
           /\ ret.reason = PlainReason("No result found")

C17_Witness ==
    /\ ScoreApplied
    /\ inp.query = <<>>
    /\ inp.result_name = <<>>
    /\ inp.result_artists = <<"b", "!">>
    /\ ret.reason.text = "No result found"

\* ------------------------------------------------------------------ C18

UnitInterval(x) == RatGe(x, Zero) /\ RatLe(x, One)

\* The text the query is compared with.
ComparedText == Strip(inp.result_name \o <<" ">> \o inp.result_artists)

\* The words of the normalized query.
QueryWords == Split(normalize_string(inp.query))

\* w is a number of query words over the number of query words.
WordFraction(w, n) == IF n = 0 THEN w = Zero ELSE \E k \in 0..n : w = Rat(k, n)

\* quality is 0.6 s + 0.4 w with both components in [0, 1].
WeightedSum(quality, s, w) ==
    /\ UnitInterval(s)
    /\ UnitInterval(w)
    /\ WordFraction(w, Len(QueryWords))
    /\ quality.n * 10 * s.d * w.d = quality.d * (6 * s.n * w.d + 4 * w.n * s.d)

\* C18: the quality calculate_match_quality returns is in [0, 1]; for a
\* non-empty query and name it is 0.6 * string similarity + 0.4 * word
\* similarity, both in [0, 1] and the second a fraction of the query words;
\* the match_quality of a SearchResult built from it is in [0, 1] as well.
C18_QualityInUnitInterval ==
    /\ ScoreApplied =>
        /\ UnitInterval(ret.quality)
        /\ (inp.query # <<>> /\ inp.result_name # <<>>)
            => WeightedSum(ret.quality,
                           calculate_string_similarity(inp.query, ComparedText),
                           calculate_fuzzy_word_similarity(inp.query,
                                                           ComparedText))
    /\ (pc = "applied" /\ ret.fn = "search_track")
        => UnitInterval(ret.result.match_quality)

C18_Witness ==
    /\ ScoreApplied
    /\ inp.query = <<"a", " ", "b">>
    /\ inp.result_name = <<"a">>
    /\ inp.result_artists = <<"b", "!">>
    /\ ret.quality = One

\* ------------------------------------------------------------------ C19

BandWords ==
    {"Excellent match", "Good match", "Fair match", "Weak match", "Poor match"}

\* The reason starts with word exactly when the quality is in [lo, hi).
InBand(word, lo, hi) ==
    (ret.reason.text = word)
        <=> (RatGe(ret.quality, lo) /\ RatLt(ret.quality, hi))

\* The reason embeds the two component scores s and w, as "{:.2f}" shows
\* them.
EmbedsScores(s, w) == ret.reason.str = Fmt2(s) /\ ret.reason.word = Fmt2(w)

\* C19: for a non-empty query and name the reason begins with one band word,
\* fixed by the quality: Excellent iff >= 0.8, Good iff in [0.6, 0.8), Fair
\* iff in [0.3, 0.6), Weak iff in [0.1, 0.3), Poor iff < 0.1; and it embeds
\* both component scores.
C19_ReasonBands ==
    (ScoreApplied /\ inp.query # <<>> /\ inp.result_name # <<>>)
        => /\ ret.reason.text \in BandWords
           /\ InBand("Excellent match", Rat(8, 10), Rat(2, 1))
           /\ InBand("Good match", Rat(6, 10), Rat(8, 10))
           /\ InBand("Fair match", Rat(3, 10), Rat(6, 10))
           /\ InBand("Weak match", Rat(1, 10), Rat(3, 10))
           /\ InBand("Poor match", Zero, Rat(1, 10))
           /\ EmbedsScores(
                  calculate_string_similarity(inp.query, ComparedText),
                  calculate_fuzzy_word_similarity(inp.query, ComparedText))

\* A quality on the threshold 0.8.
C19_Witness ==
    /\ ScoreApplied
    /\ inp.query = <<"a">>
    /\ inp.result_name = <<"a", "a">>
    /\ inp.result_artists = <<>>
    /\ ret.quality = Rat(8, 10)
    /\ ret.reason = [text |-> "Excellent match", msg |-> "",
                     str |-> 67, word |-> 100]

\* ------------------------------------------------------------------ C20

ParseApplied == pc = "applied" /\ ret.fn = "parse_item"

\* The text that follows prefix in s, trimmed.
After(s, prefix) == Strip(SubSeq(s, Len(prefix) + 1, Len(s)))

\* The first rule of the list that matches the trimmed input t.
FirstRule(t) ==
    CASE StartsWith(t, PfxSpotify) -> <<"uri", t>>
      [] ~StartsWith(t, PfxSpotify) /\ StartsWith(t, PfxAlbum)
            -> <<"album", After(t, PfxAlbum)>>
      [] ~StartsWith(t, PfxSpotify) /\ StartsWith(t, PfxSingle)
            -> <<"album", After(t, PfxSingle)>>
      [] ~StartsWith(t, PfxSpotify) /\ StartsWith(t, PfxTrack)
            -> <<"track", After(t, PfxTrack)>>
      [] OTHER -> <<"auto", t>>

\* C20: parse_item returns a kind and a text for every input: after
\* trimming, "spotify:" gives (uri, the trimmed input), "album:" and
\* "single:" give (album, the trimmed remainder), "track:" gives (track, the
\* trimmed remainder), anything else (auto, the trimmed input); an empty or
\* blank input gives (auto, "").
C20_ParseRules ==
    ParseApplied
        => /\ ret.item_type \in {"uri", "album", "track", "auto"}
           /\ <<ret.item_type, ret.query>> = FirstRule(Strip(inp.item_string))
           /\ (\A k \in 1..Len(inp.item_string) :
                   inp.item_string[k] \in Whitespace)
                => (ret.item_type = "auto" /\ ret.query = <<>>)

C20_Witness ==
    /\ ParseApplied
    /\ inp.item_string
         = <<"\t", " ">> \o PfxSingle \o <<" ">> \o <<"x", " ">> \o <<"\n">>
    /\ ret.item_type = "album"
    /\ ret.query = <<"x">>

\* ------------------------------------------------------------------ C13

\* The calls of one operation made so far, in order.
CallsTo(op) == SelectSeq(calls, LAMBDA c : c.op = op)

\* The batches handed to playlist_add_items, one after the other.
RECURSIVE Concatenated(_)
Concatenated(cs) ==
    IF cs = <<>> THEN <<>> ELSE Head(cs).arg \o Concatenated(Tail(cs))

\* The position in calls of the first call of an operation, 0 if none.
FirstCallTo(op) ==
    IF \E k \in 1..Len(calls) : calls[k].op = op
    THEN CHOOSE k \in 1..Len(calls) :
             /\ calls[k].op = op
             /\ \A j \in 1..(k - 1) : calls[j].op # op
    ELSE 0

\* The batches so far are the URIs of the first tracks, in order.
BatchesArePrefix(added, uris) ==
    /\ Len(added) <= Len(uris)
    /\ added = SubSeq(uris, 1, Len(added))

\* C13: create_playlist_from_tracks creates one playlist and then calls
\* playlist_add_items ceil(n/100) times for n tracks; every batch holds
\* between 1 and 100 URIs and the batches, one after the other, are the
\* track URIs in their order.
C13_BatchesOfHundred ==
    /\ Len(CallsTo("user_playlist_create")) <= 1
    /\ CallsTo("playlist_add_items") # <<>>
        => /\ Len(CallsTo("user_playlist_create")) = 1
           /\ FirstCallTo("user_playlist_create")
                < FirstCallTo("playlist_add_items")
    /\ \A k \in 1..Len(CallsTo("playlist_add_items")) :
           Len(CallsTo("playlist_add_items")[k].arg) \in 1..100
    /\ BatchesArePrefix(Concatenated(CallsTo("playlist_add_items")),
                        TrackUris(tracks))
    /\ pc = "created"
        => /\ Len(CallsTo("user_playlist_create")) = 1
           /\ Len(CallsTo("playlist_add_items")) = (Len(tracks) + 99) \div 100
           /\ Concatenated(CallsTo("playlist_add_items")) = TrackUris(tracks)

\* 150 tracks: two calls, of 100 and of 50 URIs.
C13_Witness ==
    /\ pc = "created"
    /\ Len(tracks) = 150
    /\ Len(CallsTo("playlist_add_items")) = 2
    /\ Len(CallsTo("playlist_add_items")[1].arg) = 100
    /\ Len(CallsTo("playlist_add_items")[2].arg) = 50

\* ------------------------------------------------------------------ C11

\* create_playlist_logic has returned from the handler of the normal mode.
CreateReturned == pc = "returned" /\ ~dry_run /\ report.success

\* The skipped-items list as reported.
SkippedItems ==
    [k \in 1..Len(SelectSeq(echoed, LAMBDA l : l.kind = "skipped")) |->
        SelectSeq(echoed, LAMBDA l : l.kind = "skipped")[k].about]

IsSkipped(text) == \E k \in 1..Len(SkippedItems) : SkippedItems[k] = text

\* C11 as stated: every item whose result has no resolved tracks is in the
\* skipped-items list under its original string, as given in the input.
C11_SkippedUnderInputString ==
    CreateReturned
        => \A i \in 1..Len(items) :
               search_results[i].resolved_tracks = <<>> => IsSkipped(items[i])

\* C11 amended: every item whose result has no resolved tracks is in the
\* skipped-items list under the query of its result: the input string
\* trimmed, without its album:, single: or track: prefix, trimmed again.
C11_SkippedUnderQuery ==
    CreateReturned
        => \A i \in 1..Len(items) :
               search_results[i].resolved_tracks = <<>>
                   => /\ IsSkipped(search_results[i].query)
                      /\ search_results[i].query = FirstRule(Strip(items[i]))[2]

\* "track:ab c" against a provider that returns no candidates.
C11_Witness ==
    /\ CreateReturned
    /\ items = <<ItemTrack>>
    /\ calls[1].resp = ItemsResp(<<>>)
    /\ search_results[1].match_quality = Zero
    /\ search_results[1].resolved_tracks = <<>>
    /\ SkippedItems = <<QueryText>>
    /\ ~IsSkipped(ItemTrack)

\* ------------------------------------------------------------------ C12

\* The resolved tracks of the first n results, one result after the other.
RECURSIVE TracksUpTo(_)
TracksUpTo(n) ==
    IF n = 0 THEN <<>>
    ELSE TracksUpTo(n - 1) \o search_results[n].resolved_tracks

\* The results with and without tracks.
WithTracks == {i \in 1..Len(search_results) :
                  search_results[i].resolved_tracks # <<>>}
WithoutTracks == (1..Len(search_results)) \ WithTracks

\* The queries of the results without tracks, in result order.
RECURSIVE SkippedUpTo(_)
SkippedUpTo(n) ==
    IF n = 0 THEN <<>>
    ELSE SkippedUpTo(n - 1)
         \o (IF n \in WithoutTracks THEN <<search_results[n].query>> ELSE <<>>)

\* The track list has been extracted.
Extracted ==
    /\ ~dry_run
    /\ \/ pc \in {"current_user", "user_playlist_create", "add_items", "created"}
       \/ CreateReturned

\* C12: the track list extract_tracks_from_search_results returns is the
\* resolved tracks of all results, in result order and in track order inside
\* a result; a result with tracks gives no skipped entry and one without
\* gives exactly one, in result order, so skipped entries plus results with
\* tracks are all the results.
C12_ExtractKeepsOrder ==
    /\ Extracted => tracks = TracksUpTo(Len(search_results))
    /\ CreateReturned
        => /\ SkippedItems = SkippedUpTo(Len(search_results))
           /\ Len(SkippedItems) + Cardinality(WithTracks) = Len(search_results)
           /\ report.skipped_count = Len(SkippedItems)
           /\ report.tracks_count = Len(tracks)

\* An item without tracks, then an album of two tracks.
C12_Witness ==
    /\ CreateReturned
    /\ Len(search_results) = 2
    /\ search_results[1].resolved_tracks = <<>>
    /\ Len(search_results[2].resolved_tracks) = 2
    /\ SkippedItems = <<QueryText>>
    /\ TrackUris(tracks) = <<"t1", "t2">>

\* ------------------------------------------------------------------ C14

\* create_playlist_logic has returned from the handler of the dry run.
DryRunReturned == pc = "returned" /\ dry_run /\ report.success

\* The URIs of the tracks of the first n results whose quality is at least
\* 0.3.
RECURSIVE GoodUrisUpTo(_)
GoodUrisUpTo(n) ==
    IF n = 0 THEN <<>>
    ELSE GoodUrisUpTo(n - 1)
         \o (IF RatGe(search_results[n].match_quality, Rat(3, 10))
             THEN TrackUris(search_results[n].resolved_tracks) ELSE <<>>)

\* The URI lists of the commands shown.
CommandsShown == SelectSeq(echoed, LAMBDA l : l.kind = "command")

\* The good-matches list is uris: shown in the command, or written to the
\* output file when one is named and can be written.
GoodListIs(uris) ==
    IF uris = <<>> THEN CommandsShown = <<>> /\ file = None
    ELSE IF output = ""
    THEN Len(CommandsShown) = 1 /\ CommandsShown[1].value = uris /\ file = None
    ELSE CommandsShown = <<>> /\ (file # None => file.lines = uris)

\* C14: in a dry run the good-matches URI list is the resolved tracks of the
\* results with match_quality >= 0.3, in result order then track order; the
\* tracks of a result with a quality between 0.2 and 0.3 count in
\* tracks_found and are not in the list.
C14_GoodMatchesList ==
    DryRunReturned
        => /\ GoodListIs(GoodUrisUpTo(Len(search_results)))
           /\ report.tracks_found = Len(TracksUpTo(Len(search_results)))

\* A track of quality 4/15 and a track of quality 0.3: two tracks found,
\* the second one in the command.
C14_Witness ==
    /\ DryRunReturned
    /\ Len(search_results) = 2
    /\ search_results[1].found_item = CandQuarter
    /\ Len(search_results[1].resolved_tracks) = 1
    /\ search_results[2].found_item = CandThree
    /\ search_results[2].match_quality = Rat(3, 10)
    /\ report.tracks_found = 2
    /\ Len(CommandsShown) = 1
    /\ CommandsShown[1].value = <<"three">>

\* ------------------------------------------------------------------ C15

\* The second call of resolve_items is running or has returned.
SecondRun == first # None

\* C15: against a provider whose answers are a function of the request,
\* resolving the same items a second time gives the same results as the
\* first time, result by result, and inside one call equal items get equal
\* results.
C15_SameResultsTwice ==
    /\ SecondRun
        => /\ Len(search_results) <= Len(first.results)
           /\ \A i \in 1..Len(search_results) :
                  search_results[i] = first.results[i]
           /\ pc = "done" => search_results = first.results
    /\ \A i, j \in 1..Len(search_results) :
           items[i] = items[j] => search_results[i] = search_results[j]

\* Both calls have returned two results, one of them with the tracks of an
\* album, and the provider was asked everything twice.
C15_Witness ==
    /\ SecondRun
    /\ pc = "done"
    /\ Len(search_results) = 2
    /\ Len(search_results[1].resolved_tracks) = 2
    /\ search_results[2].resolved_tracks = <<>>
    /\ search_results = first.results
    /\ Len(calls) = 6

\* ------------------------------------------------------------------ C21

\* The kind a prefix stands for.
KindOf(prefix) == IF prefix = PfxTrack THEN "track" ELSE "album"

\* The trimmed input starts with prefix, and what follows starts with next.
Nested(prefix, next) ==
    /\ StartsWith(Strip(inp.item_string), prefix)
    /\ StartsWith(After(Strip(inp.item_string), prefix), next)

\* C21: parse_item removes one prefix at most. The kind is that of the
\* first prefix of the trimmed input; a prefix in what follows, "spotify:"
\* included, stays in the returned text, and the kind is uri only when the
\* trimmed input itself starts with "spotify:".
C21_OnePrefixOnly ==
    ParseApplied
        => /\ \A prefix \in {PfxAlbum, PfxSingle, PfxTrack} :
                \A next \in {PfxSpotify, PfxAlbum, PfxSingle, PfxTrack} :
                    Nested(prefix, next)
                        => /\ ret.item_type = KindOf(prefix)
                           /\ StartsWith(ret.query, next)
                           /\ ret.query = After(Strip(inp.item_string), prefix)
           /\ ret.item_type = "uri"
                <=> StartsWith(Strip(inp.item_string), PfxSpotify)
           /\ inp.item_string = PfxTrack \o PfxAlbum \o <<"x">>
                => ret.item_type = "track" /\ ret.query = PfxAlbum \o <<"x">>
           /\ inp.item_string = PfxAlbum \o PfxTrack \o <<"x">>
                => ret.item_type = "album" /\ ret.query = PfxTrack \o <<"x">>

\* "track: spotify:x" was parsed: a track search for "spotify:x".
C21_Witness ==
    /\ ParseApplied
    /\ inp.item_string = PfxTrack \o <<" ">> \o PfxSpotify \o <<"x">>
    /\ ret.item_type = "track"
    /\ ret.query = PfxSpotify \o <<"x">>

\* ------------------------------------------------------------------ C22

\* Item i is an album URI and the provider returned the album, well-formed.
AlbumUriFetched(i) ==
    /\ ItemType(i) = "uri"
    /\ UriKind(ItemQuery(i)) = "album"
    /\ UriFetched(i)

\* The track records of the album the provider returned for item i.
AlbumTracksOf(i) == CallsOf(i)[1].resp.item.tracks

\* resolved holds one ResolvedTrack per record, in the order of the records,
\* each with the URI as source_query.
WrappedInOrder(resolved, records, uri) ==
    /\ Len(resolved) = Len(records)
    /\ \A k \in 1..Len(records) :
           /\ resolved[k].uri = records[k].uri
           /\ resolved[k].name = records[k].name
           /\ resolved[k].artists = Join(<<",", " ">>, records[k].artists)
           /\ resolved[k].source_query = uri

\* C22: an album URI whose album the provider returned gives one
\* ResolvedTrack for every track of the album, in album order, each with the
\* URI as source_query, in a direct-match result: found_item names the URI,
\* match_quality is 1.0, the reason is "Direct URI match".
C22_AlbumUriTracks ==
    \A i \in Resolved :
        AlbumUriFetched(i)
            => /\ IsDirectMatch(search_results[i])
               /\ search_results[i].query = ItemQuery(i)
               /\ search_results[i].found_item
                    = [uri |-> ItemQuery(i), type |-> "uri"]
               /\ WrappedInOrder(search_results[i].resolved_tracks,
                                 AlbumTracksOf(i), ItemQuery(i))

\* ------------------------------------------------------------------ C23

\* The provider calls that read.
ReadOps == {"search", "track", "album", "album_tracks"}

\* Every call made so far reads, and create_playlist_logic, once it has
\* returned, has returned success with dry_run = True.
ReadsAndSucceeds ==
    /\ \A k \in 1..Len(calls) : calls[k].op \in ReadOps
    /\ pc # "raised"
    /\ pc = "returned"
        => /\ report.success
           /\ "dry_run" \in DOMAIN report
           /\ report.dry_run

\* C23 as stated: with dry_run = True, create_playlist_logic makes read
\* calls only and returns success with dry_run = True, for any item list.
C23_DryRunAnyList == dry_run => ReadsAndSucceeds

\* C23: with dry_run = True and a non-empty item list,
\* create_playlist_logic never calls current_user, user_playlist_create or
\* playlist_add_items; it makes read calls only (search, track, album,
\* album_tracks) and returns success with dry_run = True.
C23_DryRunReadsOnly == (dry_run /\ items # <<>>) => ReadsAndSucceeds

\* A dry run that returned after a search and an album listing.
C23_Witness ==
    /\ dry_run
    /\ pc = "returned"
    /\ report.success
    /\ \E k \in 1..Len(calls) : calls[k].op = "album_tracks"
    /\ \E k \in 1..Len(calls) : calls[k].op = "track"
    /\ report.tracks_found = 3

\* ------------------------------------------------------------------ C26

\* c is the search of item i: the given type, the text of the item, one
\* candidate asked for.
IsSearchOf(c, i, type) ==
    /\ c.op = "search"
    /\ c.type = type
    /\ c.arg = ItemQuery(i)
    /\ c.limit = 1

\* The result of item i carries a candidate scored above 0.2.
FoundAboveThreshold(i) ==
    /\ search_results[i].found_item # None
    /\ RatGt(search_results[i].match_quality, Rat(2, 10))

\* C26: a track item makes exactly one provider call, a track search for
\* its text with limit 1; an album item makes one album search with limit 1
\* and after it at most one album_tracks call, which is made exactly when a
\* candidate was found with quality > 0.2. No call is repeated.
C26_CallsPerItem ==
    \A i \in 1..Len(items) :
        /\ ItemType(i) = "track"
            => /\ Len(CallsOf(i)) <= 1
               /\ i \in Resolved
                    => /\ Len(CallsOf(i)) = 1
                       /\ IsSearchOf(CallsOf(i)[1], i, "track")
        /\ ItemType(i) = "album"
            => /\ Len(CallsOf(i)) <= 2
               /\ Len(CallsOf(i)) = 2 => CallsOf(i)[2].op = "album_tracks"
               /\ i \in Resolved
                    => /\ CallsOf(i) # <<>>
                       /\ IsSearchOf(CallsOf(i)[1], i, "album")
                       /\ Len(CallsOf(i)) = 2 <=> FoundAboveThreshold(i)

\* A track item whose search raised, an album item whose candidate scored
\* 0.2 and was not listed: one call each.
C26_Witness ==
    /\ Len(search_results) = 2
    /\ ItemType(1) = "track"
    /\ CallsOf(1)[1].resp.kind = "raise"
    /\ ItemType(2) = "album"
    /\ Len(CallsOf(2)) = 1
    /\ search_results[2].match_quality = Rat(2, 10)
    /\ search_results[2].found_item # None

\* ------------------------------------------------------------------ C28

\* No result has a resolved track: every item is skipped.
AllSkipped ==
    \A k \in 1..Len(search_results) : search_results[k].resolved_tracks = <<>>

\* C28: in normal mode with a non-empty item list one playlist is created
\* per run, whatever the items resolved to: user_playlist_create is called
\* once, also when every item is skipped, and then playlist_add_items is
\* not called; tracks_count is the number of URIs handed to
\* playlist_add_items over all batches. With an empty item list no provider
\* call is made and the result is success = False, error = "no_items".
C28_OnePlaylistPerRun ==
    /\ Len(CallsTo("user_playlist_create")) <= 1
    /\ CreateReturned
        => /\ items # <<>>
           /\ Len(CallsTo("user_playlist_create")) = 1
           /\ AllSkipped => CallsTo("playlist_add_items") = <<>>
           /\ report.tracks_count
                = Len(Concatenated(CallsTo("playlist_add_items")))
    /\ items = <<>>
        => /\ calls = <<>>
           /\ pc = "returned"
                => report = [success |-> FALSE, error |-> "no_items"]

\* A run in normal mode that returned with both items skipped: a playlist was
\* created and nothing was added to it.
C28_Witness ==
    /\ CreateReturned
    /\ Len(items) = 2
    /\ AllSkipped
    /\ Len(CallsTo("user_playlist_create")) = 1
    /\ CallsTo("playlist_add_items") = <<>>
    /\ report.tracks_count = 0
    /\ report.skipped_count = 2

\* ------------------------------------------------------------------ C29

\* Result k is listed under "Poor quality matches".
PoorListed(k) ==
    \E j \in 1..Len(echoed) :
        /\ echoed[j].kind = "poor"
        /\ echoed[j].about = search_results[k].query
        /\ echoed[j].value = search_results[k].quality_reason

\* The URIs of the good-matches command: its arguments, or the lines of the
\* output file.
GoodListShown ==
    IF CommandsShown # <<>> THEN CommandsShown[1].value
    ELSE IF file # None THEN file.lines
    ELSE <<>>

\* The URIs of the tracks of those of the first n results that are in G.
RECURSIVE UrisOfResults(_, _)
UrisOfResults(G, n) ==
    IF n = 0 THEN <<>>
    ELSE UrisOfResults(G, n - 1)
         \o (IF n \in G THEN TrackUris(search_results[n].resolved_tracks)
             ELSE <<>>)

\* C29: in a dry run no result listed under "Poor quality matches" has its
\* resolved tracks in the good-matches command: the command is made of the
\* tracks of results that are not listed as poor.
C29_PoorAndGoodDisjoint ==
    DryRunReturned
        => \E G \in SUBSET (1..Len(search_results)) :
               /\ GoodListShown = UrisOfResults(G, Len(search_results))
               /\ \A k \in G : ~PoorListed(k)

\* ------------------------------------------------------------ database

\* The longest list of albums under one year of a save_albums argument.
MaxAlbums == 1

\* str(n) of a row count: its decimal digits.
RECURSIVE str(_)
str(n) ==
    LET digit(k) == <<"0", "1", "2", "3", "4", "5", "6", "7", "8", "9">>[k + 1]
    IN  IF n < 10 THEN <<digit(n)>>
        ELSE Append(str(n \div 10), digit(n % 10))

\* int(s) of a text of decimal digits.
RECURSIVE int(_)
int(s) ==
    LET value(c) ==
            CHOOSE k \in 0..9 :
                <<"0", "1", "2", "3", "4", "5", "6", "7", "8", "9">>[k + 1] = c
    IN  IF Len(s) = 1 THEN value(s[1])
        ELSE 10 * int(SubSeq(s, 1, Len(s) - 1)) + value(s[Len(s)])

\* The loops of save_albums over albums_by_year.items() and over the albums
\* of a year: one INSERT per album, in order.  album_dict["name"] of a dict
\* without that key raises KeyError, and the UNIQUE constraint on uri makes
\* the INSERT of a second row with a stored uri raise IntegrityError.  The
\* columns artists_json and added_at are stored as given and left out.
RECURSIVE InsertAlbums(_, _)
InsertAlbums(table, by_year) ==
    IF by_year = <<>> THEN [ok |-> TRUE, table |-> table]
    ELSE IF Head(by_year).albums = <<>> THEN InsertAlbums(table, Tail(by_year))
    ELSE LET year_str == Head(by_year).year
             album_dict == Head(Head(by_year).albums)
             rest == <<[year |-> year_str, albums |-> Tail(Head(by_year).albums)]>>
                         \o Tail(by_year)
         IN  IF "name" \notin DOMAIN album_dict
             THEN [ok |-> FALSE, error |-> "KeyError"]
             ELSE IF \E k \in 1..Len(table) : table[k].uri = album_dict.uri
             THEN [ok |-> FALSE, error |-> "IntegrityError"]
             ELSE InsertAlbums(Append(table, [uri |-> album_dict.uri,
                                              name |-> album_dict.name,
                                              year |-> int(year_str)]),
                               rest)

\* save_albums without its transaction: every statement is kept as it is
\* executed, so a failing call leaves the table cleared.
SaveAlbums_autocommit ==
    /\ pc = "db"
    /\ \E years \in {<<>>, <<<<"2", "0", "2", "0">>>>, <<<<"2", "0", "2", "1">>>>,
                     <<<<"2", "0", "2", "0">>, <<"2", "0", "2", "1">>>>} :
        \E lists \in [1..Len(years) -> SeqsUpTo({[uri |-> "u1", name |-> "a"],
                                       [uri |-> "u1", name |-> "b"],
                                       [uri |-> "u2", name |-> "a"],
                                       [uri |-> "u3"]}, MaxAlbums)] :
        \E by_year \in {[k \in 1..Len(years) |->
                            [year |-> years[k], albums |-> lists[k]]]} :
          \E done \in {InsertAlbums(<<>>, by_year)} :
            /\ inp' = [fn |-> "save_albums", albums_by_year |-> by_year]
            /\ IF done.ok
               THEN /\ albums' = done.table
                    /\ metadata' = [metadata EXCEPT !.total_count =
                                       [value |-> str(Len(done.table))]]
                    /\ ret' = [fn |-> "save_albums", raised |-> ""]
               ELSE /\ albums' = <<>>
                    /\ metadata' = metadata
                    /\ ret' = [fn |-> "save_albums", raised |-> done.error]
    /\ UNCHANGED <<items, pc, idx, search_results, cur, calls, stable, first,
                   cliVars, playlistVars, play_history, syncs, fetchVars>>

\* save_albums(albums_by_year): DELETE FROM albums, the inserts, total_count
\* set to str of COUNT(*), commit.  The connection is closed without a
\* commit when a statement raises, which rolls the transaction back: the
\* DELETE, the inserts before the failing one, and the metadata.
SaveAlbums ==
    /\ pc = "db"
    /\ \E years \in {<<>>, <<<<"2", "0", "2", "0">>>>, <<<<"2", "0", "2", "1">>>>,
                     <<<<"2", "0", "2", "0">>, <<"2", "0", "2", "1">>>>} :
        \E lists \in [1..Len(years) -> SeqsUpTo({[uri |-> "u1", name |-> "a"],
                                       [uri |-> "u1", name |-> "b"],
                                       [uri |-> "u2", name |-> "a"],
                                       [uri |-> "u3"]}, MaxAlbums)] :
        \E by_year \in {[k \in 1..Len(years) |->
                            [year |-> years[k], albums |-> lists[k]]]} :
          \E done \in {InsertAlbums(<<>>, by_year)} :
            /\ inp' = [fn |-> "save_albums", albums_by_year |-> by_year]
            /\ IF done.ok
               THEN /\ albums' = done.table
                    /\ metadata' = [metadata EXCEPT !.total_count =
                                       [value |-> str(Len(done.table))]]
                    /\ ret' = [fn |-> "save_albums", raised |-> ""]
               ELSE /\ UNCHANGED <<albums, metadata>>
                    /\ ret' = [fn |-> "save_albums", raised |-> done.error]
    /\ UNCHANGED <<items, pc, idx, search_results, cur, calls, stable, first,
                   cliVars, playlistVars, play_history, syncs, fetchVars>>

\* get_album_count(): total_count of the metadata when it is there and not
\* the empty text, else COUNT(*) of the albums table.
get_album_count ==
    IF metadata.total_count # None /\ metadata.total_count.value # <<>>
    THEN int(metadata.total_count.value)
    ELSE Len(albums)

\* The database as initialize_db leaves it, then any calls of save_albums.
InitAlbums ==
    /\ pc = "db"
    /\ NoResolve
    /\ NoPlaylist
    /\ NoPure

NextAlbums == SaveAlbums

SpecAlbums == InitAlbums /\ [][NextAlbums]_vars

\* The longest list of plays of a save_play_history call and of a sync file.
MaxBatch == 2

\* Play dictionaries: two tracks, two times, two names for one play, and a
\* dictionary without track_name.  The other columns are left out.
PlayDicts ==
    {[track_uri |-> "t1", played_at |-> "d1", track_name |-> "a"],
     [track_uri |-> "t1", played_at |-> "d1", track_name |-> "b"],
     [track_uri |-> "t1", played_at |-> "d2", track_name |-> "a"],
     [track_uri |-> "t2", played_at |-> "d1"]}

\* The insert loop of save_play_history counting every play, the skipped
\* ones too.
RECURSIVE InsertPlays_counts_all(_, _, _)
InsertPlays_counts_all(table, plays, added_count) ==
    IF plays = <<>>
    THEN [ok |-> TRUE, table |-> table, added_count |-> added_count]
    ELSE IF "track_name" \notin DOMAIN Head(plays)
    THEN [ok |-> FALSE, error |-> "KeyError"]
    ELSE IF \E k \in 1..Len(table) :
                /\ table[k].track_uri = Head(plays).track_uri
                /\ table[k].played_at = Head(plays).played_at
    THEN InsertPlays_counts_all(table, Tail(plays), added_count + 1)
    ELSE InsertPlays_counts_all(Append(table, Head(plays)), Tail(plays),
                                added_count + 1)

\* The insert loop of save_play_history: play["track_name"] of a dictionary
\* without that key raises KeyError; UNIQUE(track_uri, played_at) makes the
\* INSERT of a stored pair raise IntegrityError, which the loop swallows
\* without counting the play.
RECURSIVE InsertPlays(_, _, _)
InsertPlays(table, plays, added_count) ==
    IF plays = <<>>
    THEN [ok |-> TRUE, table |-> table, added_count |-> added_count]
    ELSE IF "track_name" \notin DOMAIN Head(plays)
    THEN [ok |-> FALSE, error |-> "KeyError"]
    ELSE IF \E k \in 1..Len(table) :
                /\ table[k].track_uri = Head(plays).track_uri
                /\ table[k].played_at = Head(plays).played_at
    THEN InsertPlays(table, Tail(plays), added_count)
    ELSE InsertPlays(Append(table, Head(plays)), Tail(plays), added_count + 1)

\* added = save_play_history(plays).  get_db_connection commits when the
\* loop ends and rolls back when it raises.
SavePlayHistory ==
    /\ pc = "db"
    /\ \E plays \in SeqsUpTo(PlayDicts, MaxBatch) :
        \E done \in {InsertPlays(play_history, plays, 0)} :
          /\ inp' = [fn |-> "save_play_history", plays |-> plays]
          /\ IF done.ok
             THEN /\ play_history' = done.table
                  /\ ret' = [fn |-> "save_play_history", raised |-> "",
                             value |-> done.added_count]
             ELSE /\ UNCHANGED play_history
                  /\ ret' = [fn |-> "save_play_history", raised |-> done.error]
    /\ UNCHANGED <<items, pc, idx, search_results, cur, calls, stable, first,
                   cliVars, playlistVars, albums, metadata, syncs, fetchVars>>

\* load_all_syncs(): the plays of every sync file, in the order of the file
\* names.  A file that is not JSON is skipped, and one without the key
\* "plays" brings none.
RECURSIVE load_all_syncs(_)
load_all_syncs(files) ==
    IF files = <<>> THEN <<>>
    ELSE (IF "plays" \in DOMAIN Head(files) THEN Head(files).plays ELSE <<>>)
             \o load_all_syncs(Tail(files))

\* The deduplication loop of rebuild_history_from_syncs: the first play of
\* every (track_uri, played_at), in order.
RECURSIVE UniquePlays(_)
UniquePlays(all_plays) ==
    IF all_plays = <<>> THEN <<>>
    ELSE LET before == UniquePlays(SubSeq(all_plays, 1, Len(all_plays) - 1))
             play == all_plays[Len(all_plays)]
         IN  IF \E k \in 1..Len(before) :
                    /\ before[k].track_uri = play.track_uri
                    /\ before[k].played_at = play.played_at
             THEN before
             ELSE Append(before, play)

\* total, unique = rebuild_history_from_syncs(): nothing is done when the
\* sync files bring no play; else the table is cleared and the unique plays
\* are inserted.  The metadata key last_play_history_sync is left out.
RebuildHistoryFromSyncs ==
    /\ pc = "db"
    /\ inp' = [fn |-> "rebuild_history_from_syncs"]
    /\ \E all_plays \in {load_all_syncs(syncs)} :
        IF all_plays = <<>>
        THEN /\ ret' = [fn |-> "rebuild_history_from_syncs", raised |-> "",
                        value |-> <<0, 0>>]
             /\ UNCHANGED play_history
        ELSE /\ play_history' = UniquePlays(all_plays)
             /\ ret' = [fn |-> "rebuild_history_from_syncs", raised |-> "",
                        value |-> <<Len(all_plays), Len(UniquePlays(all_plays))>>]
    /\ UNCHANGED <<items, pc, idx, search_results, cur, calls, stable, first,
                   cliVars, playlistVars, albums, metadata, syncs, fetchVars>>

\* A new database and up to two sync files: files written by save_raw_sync,
\* which hold plays with every key, and a file that is not JSON.
InitHistory ==
    /\ pc = "db"
    /\ items = <<>>
    /\ idx = 1
    /\ search_results = <<>>
    /\ cur = Idle
    /\ calls = <<>>
    /\ stable = FALSE
    /\ first = None
    /\ NoCli
    /\ NoPlaylist
    /\ NoPure
    /\ NoFetch
    /\ albums = <<>>
    /\ metadata = [total_count |-> None]
    /\ play_history = <<>>
    /\ syncs \in SeqsUpTo({[malformed |-> TRUE]}
                              \cup {[plays |-> plays] :
                                       plays \in SeqsUpTo(
                                           {p \in PlayDicts :
                                               "track_name" \in DOMAIN p},
                                           MaxBatch)},
                          2)

NextHistory ==
    \/ SavePlayHistory
    \/ RebuildHistoryFromSyncs

SpecHistory == InitHistory /\ [][NextHistory]_vars

\* ------------------------------------------- fetch_all_albums_parallel

\* batch_size of fetch_all_albums_parallel.
album_batch_size == 50

\* The largest total that the provider reports.
MaxTotal == 101

\* The largest max_workers.
MaxWorkers == 3

\* The longest list of items in one batch.
MaxFetched == 2

\* process_album_batch writing the list of a year anew for every item.
RECURSIVE process_album_batch_overwrites(_, _)
process_album_batch_overwrites(batch_items, by_year) ==
    IF batch_items = <<>> THEN [ok |-> TRUE, by_year |-> by_year]
    ELSE LET item == Head(batch_items)
             date == item.release_date
             cut == IF \E k \in 1..Len(date) : date[k] = "-"
                    THEN CHOOSE k \in 1..Len(date) :
                             /\ date[k] = "-"
                             /\ \A j \in 1..(k - 1) : date[j] # "-"
                    ELSE Len(date) + 1
             year_str == str(int(SubSeq(date, 1, cut - 1)))
             added == [uri |-> item.uri]
         IN  IF "release_date" \notin DOMAIN item
             THEN [ok |-> FALSE, by_year |-> by_year, error |-> "KeyError"]
             ELSE process_album_batch_overwrites(
                      Tail(batch_items),
                      IF \E k \in 1..Len(by_year) : by_year[k].year = year_str
                      THEN [k \in 1..Len(by_year) |->
                               IF by_year[k].year = year_str
                               THEN [year |-> year_str, albums |-> <<added>>]
                               ELSE by_year[k]]
                      ELSE Append(by_year,
                                  [year |-> year_str, albums |-> <<added>>]))

\* process_album_batch(batch, albums_by_year): for every item in order,
\* the album dictionary is appended to the list of its year, which is the
\* text of int(release_date.split("-")[0]); a new year gets a new list.
\* item["album"]["release_date"] of an item without it raises KeyError and
\* the items before it stay merged.  Of the album dictionary the uri is
\* kept.
RECURSIVE process_album_batch(_, _)
process_album_batch(batch_items, by_year) ==
    IF batch_items = <<>> THEN [ok |-> TRUE, by_year |-> by_year]
    ELSE LET item == Head(batch_items)
             date == item.release_date
             cut == IF \E k \in 1..Len(date) : date[k] = "-"
                    THEN CHOOSE k \in 1..Len(date) :
                             /\ date[k] = "-"
                             /\ \A j \in 1..(k - 1) : date[j] # "-"
                    ELSE Len(date) + 1
             year_str == str(int(SubSeq(date, 1, cut - 1)))
             added == [uri |-> item.uri]
         IN  IF "release_date" \notin DOMAIN item
             THEN [ok |-> FALSE, by_year |-> by_year, error |-> "KeyError"]
             ELSE process_album_batch(
                      Tail(batch_items),
                      IF \E k \in 1..Len(by_year) : by_year[k].year = year_str
                      THEN [k \in 1..Len(by_year) |->
                               IF by_year[k].year = year_str
                               THEN [year |-> year_str,
                                     albums |-> Append(by_year[k].albums, added)]
                               ELSE by_year[k]]
                      ELSE Append(by_year,
                                  [year |-> year_str, albums |-> <<added>>]))

\* total_albums = get_total_album_count(sp), the offsets, and one future
\* per offset submitted to the executor.  A raising probe ends the call.
GetTotal ==
    /\ pc = "fetch"
    /\ \E resp \in {[kind |-> "raise", msg |-> "e0"]}
                       \cup {[kind |-> "ok", total |-> n] :
                                n \in {t \in 0..MaxTotal :
                                          t % album_batch_size \in {0, 1}}} :
        /\ calls' = Append(calls, [op |-> "current_user_saved_albums",
                                   limit |-> 1, resp |-> resp])
        /\ IF resp.kind = "raise"
           THEN /\ pc' = "raised"
                /\ ret' = [fn |-> "fetch_all_albums_parallel", raised |-> resp.msg]
                /\ UNCHANGED futures
           ELSE /\ pc' = "pool"
                /\ futures' =
                       [k \in 1..((resp.total + album_batch_size - 1)
                                      \div album_batch_size) |->
                           [offset |-> (k - 1) * album_batch_size,
                            state |-> "pending"]]
                /\ UNCHANGED ret
    /\ UNCHANGED <<items, idx, search_results, cur, stable, first, cliVars,
                   playlistVars, inp, dbVars, albums_by_year,
                   completed_batches, progress, cached>>

\* A free worker takes the next future of the queue and calls
\* sp.current_user_saved_albums(limit=batch_size, offset=offset).  At most
\* max_workers futures are between this call and their end.  The call
\* touches no shared variable, so it is one step.
FetchBatch(k) ==
    /\ pc = "pool"
    /\ futures[k].state = "pending"
    /\ \A j \in 1..(k - 1) : futures[j].state # "pending"
    /\ Cardinality({j \in 1..Len(futures) :
                       futures[j].state \in {"fetched", "merged"}})
           < inp.max_workers
    /\ \E resp \in {[kind |-> "raise", msg |-> m] : m \in {"e1", "e2"}}
                       \cup {[kind |-> "ok", items |-> q] :
                                q \in SeqsUpTo(
                                    {[uri |-> "a1",
                                      release_date |-> <<"2", "0", "2", "0">>],
                                     [uri |-> "a2",
                                      release_date |->
                                          <<"2", "0", "2", "1", "-", "0", "6">>],
                                     [uri |-> "a3"]},
                                    MaxFetched)} :
        /\ calls' = Append(calls, [op |-> "current_user_saved_albums",
                                   limit |-> album_batch_size,
                                   offset |-> futures[k].offset,
                                   resp |-> resp])
        /\ futures' = [futures EXCEPT ![k] =
                          IF resp.kind = "raise"
                          THEN [offset |-> @.offset, state |-> "failed",
                                exception |-> resp.msg]
                          ELSE [offset |-> @.offset, state |-> "fetched",
                                batch |-> resp.items]]
    /\ UNCHANGED <<items, pc, idx, search_results, cur, stable, first, cliVars,
                   playlistVars, pureVars, dbVars, albums_by_year,
                   completed_batches, progress, cached>>

\* with albums_lock: process_album_batch(batch, albums_by_year).  The lock
\* makes the block one step.
MergeBatch(k) ==
    /\ pc = "pool"
    /\ futures[k].state = "fetched"
    /\ \E done \in {process_album_batch(futures[k].batch, albums_by_year)} :
        /\ albums_by_year' = done.by_year
        /\ futures' = [futures EXCEPT ![k] =
                          IF done.ok
                          THEN [offset |-> @.offset, state |-> "merged",
                                batch |-> @.batch]
                          ELSE [offset |-> @.offset, state |-> "failed",
                                exception |-> done.error]]
    /\ UNCHANGED <<items, pc, idx, search_results, cur, calls, stable, first,
                   cliVars, playlistVars, pureVars, dbVars,
                   completed_batches, progress, cached>>

\* with albums_lock: completed_batches += 1 and the progress callback, if
\* one was given; then fetch_batch returns.
ReportProgress(k) ==
    /\ pc = "pool"
    /\ futures[k].state = "merged"
    /\ completed_batches' = completed_batches + 1
    /\ progress' =
           IF inp.progress_callback
           THEN Append(progress,
                       <<IF completed_batches' * album_batch_size
                                < calls[1].resp.total
                         THEN completed_batches' * album_batch_size
                         ELSE calls[1].resp.total,
                         calls[1].resp.total>>)
           ELSE progress
    /\ futures' = [futures EXCEPT ![k] =
                      [offset |-> @.offset, state |-> "done", batch |-> @.batch]]
    /\ UNCHANGED <<items, pc, idx, search_results, cur, calls, stable, first,
                   cliVars, playlistVars, pureVars, dbVars, albums_by_year,
                   cached>>

\* Every future has ended: the exception of the first future that has one
\* is raised, else the result is saved to the cache and returned.
FinishFetch ==
    /\ pc = "pool"
    /\ \A k \in 1..Len(futures) : futures[k].state \in {"done", "failed"}
    /\ IF \E k \in 1..Len(futures) : futures[k].state = "failed"
       THEN /\ pc' = "raised"
            /\ ret' = [fn |-> "fetch_all_albums_parallel",
                       raised |-> futures[CHOOSE k \in 1..Len(futures) :
                                      /\ futures[k].state = "failed"
                                      /\ \A j \in 1..(k - 1) :
                                             futures[j].state # "failed"
                                 ].exception]
            /\ UNCHANGED cached
       ELSE /\ pc' = "returned"
            /\ cached' = [albums_by_year |-> albums_by_year]
            /\ ret' = [fn |-> "fetch_all_albums_parallel", raised |-> "",
                       value |-> albums_by_year]
    /\ UNCHANGED <<items, idx, search_results, cur, calls, stable, first,
                   cliVars, playlistVars, inp, dbVars, futures, albums_by_year,
                   completed_batches, progress>>

\* fetch_all_albums_parallel(sp, progress_callback, max_workers) is called.
InitFetch ==
    /\ pc = "fetch"
    /\ inp \in [fn : {"fetch_all_albums_parallel"},
                progress_callback : BOOLEAN,
                max_workers : 1..MaxWorkers]
    /\ ret = None
    /\ NoResolve
    /\ NoPlaylist

NextFetch ==
    \/ GetTotal
    \/ \E k \in 1..Len(futures) : FetchBatch(k)
    \/ \E k \in 1..Len(futures) : MergeBatch(k)
    \/ \E k \in 1..Len(futures) : ReportProgress(k)
    \/ FinishFetch

SpecFetch == InitFetch /\ [][NextFetch]_vars

\* The rows that a save_albums argument asks for: one per album of each
\* year, with the year of its key.
RowsPassed(by_year) ==
    UNION {{[uri |-> by_year[j].albums[k].uri,
             name |-> by_year[j].albums[k].name,
             year |-> int(by_year[j].year)] : k \in 1..Len(by_year[j].albums)}
           : j \in 1..Len(by_year)}

\* How many albums a save_albums argument holds.
CountPassed(by_year) ==
    Cardinality({jk \in (1..Len(by_year)) \X (1..MaxAlbums + 1) :
                    jk[2] <= Len(by_year[jk[1]].albums)})

\* save_albums returned in this state.
SaveAlbumsReturned == inp # None /\ inp.fn = "save_albums" /\ ret.raised = ""

\* The albums table and total_count after the calls so far.
AlbumsOfLastCall ==
    /\ SaveAlbumsReturned
       => /\ {albums[k] : k \in 1..Len(albums)} = RowsPassed(inp.albums_by_year)
          /\ Len(albums) = CountPassed(inp.albums_by_year)
          /\ metadata.total_count = [value |-> str(Len(albums))]
    /\ get_album_count = Len(albums)

\* A step in which save_albums raised changes neither table.
FailedSaveKeeps ==
    (inp' # None /\ inp'.fn = "save_albums" /\ ret'.raised # "")
        => albums' = albums /\ metadata' = metadata

\* C30: after any sequence of save_albums calls of which the last returned,
\* the albums table holds exactly the albums passed to that call and
\* total_count is the text of the row count; get_album_count returns the
\* row count in every state; and a save_albums call that raises (a repeated
\* uri, an album without a name) leaves the albums table and total_count as
\* they were.
C30_SaveAlbumsReplaces == []AlbumsOfLastCall /\ [][FailedSaveKeeps]_vars

\* A call with a repeated uri has failed after an earlier call stored two
\* albums.
C30_Witness ==
    /\ inp # None
    /\ inp.fn = "save_albums"
    /\ ret.raised = "IntegrityError"
    /\ Len(albums) = 2

\* The (track_uri, played_at) pairs of a list of plays or of rows.
KeysOf(plays) ==
    {<<plays[k].track_uri, plays[k].played_at>> : k \in 1..Len(plays)}

\* No two rows of play_history have the same (track_uri, played_at).
OneRowPerPlay ==
    \A j, k \in 1..Len(play_history) :
        KeysOf(<<play_history[j]>>) = KeysOf(<<play_history[k]>>) => j = k

\* A step in which save_play_history returned: the rows it found are kept,
\* the rows it added are one for every pair of the batch that was not
\* stored, and it returns their number.
CountsInserted ==
    (inp' # None /\ inp'.fn = "save_play_history" /\ ret'.raised = "")
        => /\ Len(play_history') >= Len(play_history)
           /\ SubSeq(play_history', 1, Len(play_history)) = play_history
           /\ KeysOf(play_history') = KeysOf(play_history) \cup KeysOf(inp'.plays)
           /\ ret'.value = Len(play_history') - Len(play_history)
           /\ ret'.value = Cardinality(KeysOf(inp'.plays) \ KeysOf(play_history))

\* A step in which the batch of the call before, which returned, is saved
\* again.
SecondSaveAddsNothing ==
    (/\ inp # None
     /\ inp.fn = "save_play_history"
     /\ ret.raised = ""
     /\ inp' = inp)
        => /\ ret'.raised = ""
           /\ ret'.value = 0
           /\ play_history' = play_history

\* C24: save_play_history returns the number of rows it inserted, one for
\* every (track_uri, played_at) of the batch that was neither stored nor
\* earlier in the batch; the play_history table never holds two rows with
\* the same pair; and saving the batch of the previous call again returns 0
\* and leaves the table unchanged.
C24_CountsNewPlaysOnly ==
    []OneRowPerPlay /\ [][CountsInserted /\ SecondSaveAddsNothing]_vars

\* A batch of two plays with the same pair was saved into a table that held
\* another play, and one row was counted.
C24_Witness ==
    /\ inp # None
    /\ inp.fn = "save_play_history"
    /\ Len(inp.plays) = 2
    /\ KeysOf(<<inp.plays[1]>>) = KeysOf(<<inp.plays[2]>>)
    /\ ret.raised = ""
    /\ ret.value = 1
    /\ Len(play_history) = 2

\* C25: after rebuild_history_from_syncs the play_history table holds one
\* row for every (track_uri, played_at) of the sync files and no other row,
\* whatever it held before, and the call returned the number of plays loaded
\* and the number of distinct pairs; the table depends on the sync files
\* only, so a second run gives the same table.
C25_RebuildFromSyncsOnly ==
    (inp # None /\ inp.fn = "rebuild_history_from_syncs")
        => /\ KeysOf(play_history) = KeysOf(load_all_syncs(syncs))
           /\ Len(play_history) = Cardinality(KeysOf(load_all_syncs(syncs)))
           /\ ret.value = <<Len(load_all_syncs(syncs)),
                            Cardinality(KeysOf(load_all_syncs(syncs)))>>

\* The calls that fetched a batch: every provider call but the probe.
BatchCalls == {c \in 1..Len(calls) : "offset" \in DOMAIN calls[c]}

\* fetch_all_albums_parallel has ended after a probe that gave a total.
FetchEnded == pc \in {"returned", "raised"} /\ calls[1].resp.kind = "ok"

\* Every batch call asks for 50 albums at a multiple of 50 below the total,
\* no offset is asked twice, and at the end every such offset was asked.
EachOffsetOnce ==
    /\ \A c \in BatchCalls :
        /\ calls[c].limit = 50
        /\ calls[c].offset % 50 = 0
        /\ calls[c].offset < calls[1].resp.total
        /\ \A d \in BatchCalls : calls[d].offset = calls[c].offset => d = c
    /\ FetchEnded
       => \A o \in {n \in 0..MaxTotal : n % 50 = 0 /\ n < calls[1].resp.total} :
              \E c \in BatchCalls : calls[c].offset = o

\* How often an album is in the merged result, and how often the provider
\* returned it.
TimesMerged(uri) ==
    Cardinality({jk \in (1..Len(albums_by_year)) \X (1..(3 * MaxFetched)) :
                    /\ jk[2] <= Len(albums_by_year[jk[1]].albums)
                    /\ albums_by_year[jk[1]].albums[jk[2]].uri = uri})

TimesFetched(uri) ==
    Cardinality({ck \in BatchCalls \X (1..MaxFetched) :
                    /\ calls[ck[1]].resp.kind = "ok"
                    /\ ck[2] <= Len(calls[ck[1]].resp.items)
                    /\ calls[ck[1]].resp.items[ck[2]].uri = uri})

\* The returned albums_by_year holds every fetched item as often as it was
\* fetched, under the year of its release date, one list per year.
MergedExactlyOnce ==
    pc = "returned"
        => /\ \A uri \in {"a1", "a2", "a3"} : TimesMerged(uri) = TimesFetched(uri)
           /\ \A j \in 1..Len(albums_by_year) :
                  /\ \A k \in 1..Len(albums_by_year[j].albums) :
                         albums_by_year[j].year =
                             IF albums_by_year[j].albums[k].uri = "a1"
                             THEN <<"2", "0", "2", "0">>
                             ELSE <<"2", "0", "2", "1">>
                  /\ \A k \in 1..Len(albums_by_year) :
                         albums_by_year[k].year = albums_by_year[j].year => k = j
           /\ ret.value = albums_by_year

\* The k-th invocation of the callback carries min(k * 50, total) and the
\* total; a call that returns has made one invocation per batch, the last
\* with the total.
ProgressInOrder ==
    /\ \A k \in 1..Len(progress) :
           /\ progress[k][1] = IF k * 50 < calls[1].resp.total
                               THEN k * 50 ELSE calls[1].resp.total
           /\ progress[k][2] = calls[1].resp.total
    /\ (pc = "returned" /\ inp.progress_callback)
           => /\ Len(progress) = Len(futures)
              /\ Len(progress) = Cardinality(BatchCalls)
              /\ progress # <<>> => progress[Len(progress)][1] = calls[1].resp.total

\* When a provider call or the processing of a batch raised, the call ends
\* by raising the exception of a batch, or of the probe, and nothing is
\* saved to the cache unless the call returns.
RaisedFetchNotCached ==
    /\ pc # "returned" => cached = None
    /\ (pc \in {"returned", "raised"}
        /\ \/ \E c \in 1..Len(calls) : calls[c].resp.kind = "raise"
           \/ \E k \in 1..Len(futures) : futures[k].state = "failed")
           => /\ pc = "raised"
              /\ \/ calls[1].resp.kind = "raise" /\ ret.raised = calls[1].resp.msg
                 \/ \E k \in 1..Len(futures) :
                        /\ futures[k].state = "failed"
                        /\ ret.raised = futures[k].exception

\* C27: in fetch_all_albums_parallel, for every max_workers from 1 and every
\* interleaving of the workers, each offset 0, 50, 100, ... below the total
\* is fetched exactly once; the returned albums_by_year holds every item of
\* every fetched batch exactly once; the progress callback, when given, is
\* invoked with min(k * 50, total) at its k-th invocation, once per batch
\* and last with the total when the call returns; and when a batch raises,
\* in the provider call or in its processing, the call raises the exception
\* of a batch and the cache is not saved.
C27_ParallelFetch ==
    (pc \in {"pool", "returned", "raised"})
        => /\ pc # "raised" \/ Len(calls) > 1 => EachOffsetOnce
           /\ MergedExactlyOnce
           /\ ProgressInOrder
           /\ RaisedFetchNotCached

\* Three batches were fetched by more than one worker and the second was
\* merged before the first; the call returned and reported three times.
C27_Witness ==
    /\ pc = "returned"
    /\ inp.max_workers > 1
    /\ inp.progress_callback
    /\ Len(futures) = 3
    /\ futures[1].batch = <<[uri |-> "a2",
                             release_date |-> <<"2", "0", "2", "1", "-", "0", "6">>]>>
    /\ futures[2].batch = <<[uri |-> "a1", release_date |-> <<"2", "0", "2", "0">>],
                            [uri |-> "a1", release_date |-> <<"2", "0", "2", "0">>]>>
    /\ albums_by_year[1].year = <<"2", "0", "2", "0">>
    /\ Len(progress) = 3

====
